---- MODULE Spec2Model ----
(***************************************************************************)
(* Model of the analytics core of tokenoptimizer (backend/app.py): filter  *)
(* normalisation, trend bucketing, the TTL/LRU query caches and the        *)
(* model-substitution recommendations.                                     *)
(*                                                                         *)
(* Representation choices                                                  *)
(*   - an instant is an integer number of ticks of 30 minutes since        *)
(*     2022-01-01T00:00Z (a Saturday); every datetime is timezone-aware UTC; *)
(*   - a string is a sequence of character codes (0 is the blank), so that *)
(*     "".join, str.strip and sorted() are computed, not assumed;          *)
(*   - money is an integer number of micro-units; a product tokens*price   *)
(*     is kept multiplied by 1000 instead of being divided by 1000.        *)
(***************************************************************************)
EXTENDS Integers, Sequences, FiniteSets, TLC

VARIABLES
    now,          \* time.time(), in seconds since the model epoch
    storeUp,      \* TRUE while the Supabase store answers queries
    mem,          \* process.memory_percent() as cleanup_cache last saw it
    store,        \* rows of table token_logs, in table order
    alternatives, \* rows of table model_alternatives with is_recommended
    pricing,      \* rows of table model_pricing with is_active
    caches,       \* the three lru_cache instances, most recently used last
    resp,         \* what the last handler returned, and the queries it sent
    served,       \* number of requests handled so far
    inflight,     \* requests whose route has made its cache key, not yet answered
    sdk           \* the SDK process: _config, the calls of its last operation
                  \* to the provider and to the log endpoint, and what it returned

vars == <<now, storeUp, mem, store, alternatives, pricing, caches, resp, served,
          inflight, sdk>>

-----------------------------------------------------------------------------
(* The SDK before any call (tokenoptimizer/utils/config.py) *)

\* _DEFAULT_CONFIG
DefaultConfig ==
    [api_url |-> "http://localhost:5002/api/log",
     timeout |-> 3,
     debug |-> FALSE,
     disable_logging |-> FALSE]

\* nothing called yet
NoResult == [outcome |-> "none", returned |-> <<>>]

\* the module imported with no TOKENOPTIMIZER_ variable set
SdkIdle ==
    [config |-> DefaultConfig,
     calls |-> <<>>,
     result |-> NoResult,
     op |-> [name |-> "import", args |-> <<>>]]

-----------------------------------------------------------------------------
(* Bounds of the model *)

MaxBuckets == 6

MaxNow == 160

MaxRequests == 2

-----------------------------------------------------------------------------
(* Calendar: what datetime, timedelta and strftime compute *)

EpochYear == 2022

TicksPerHour == 2

TicksPerDay == 48

TickSeconds == 1800

IsLeap(y) == (y % 4 = 0 /\ y % 100 # 0) \/ y % 400 = 0

DaysInYear(y) == IF IsLeap(y) THEN 366 ELSE 365

DaysInMonth(y, m) ==
    IF m = 2 THEN (IF IsLeap(y) THEN 29 ELSE 28)
    ELSE IF m \in {4, 6, 9, 11} THEN 30 ELSE 31

RECURSIVE DaysBeforeYear(_)
DaysBeforeYear(y) ==
    IF y <= EpochYear THEN 0 ELSE DaysBeforeYear(y - 1) + DaysInYear(y - 1)

RECURSIVE DaysBeforeMonth(_, _)
DaysBeforeMonth(y, m) ==
    IF m <= 1 THEN 0 ELSE DaysBeforeMonth(y, m - 1) + DaysInMonth(y, m - 1)

\* datetime(y, m, d, h, mi) as an instant
DT(y, m, d, h, mi) ==
    (DaysBeforeYear(y) + DaysBeforeMonth(y, m) + (d - 1)) * TicksPerDay
        + h * TicksPerHour + (mi \div 30)

RECURSIVE YearOfDay(_, _)
YearOfDay(n, y) ==
    IF n < DaysBeforeYear(y + 1) THEN y ELSE YearOfDay(n, y + 1)

RECURSIVE MonthOfDay(_, _, _)
MonthOfDay(n, y, m) ==
    IF n < DaysBeforeYear(y) + DaysBeforeMonth(y, m + 1) THEN m
    ELSE MonthOfDay(n, y, m + 1)

\* the fields of the datetime at instant t
Fields(t) ==
    LET n  == t \div TicksPerDay
        y  == YearOfDay(n, EpochYear)
        m  == MonthOfDay(n, y, 1)
        r  == t % TicksPerDay
    IN  [year |-> y, month |-> m,
         day |-> n - DaysBeforeYear(y) - DaysBeforeMonth(y, m) + 1,
         hour |-> r \div TicksPerHour, minute |-> (r % TicksPerHour) * 30]

\* datetime.weekday(): Monday is 0
Weekday(t) == ((t \div TicksPerDay) + 5) % 7

\* datetime.isoformat() of an aware UTC datetime, as a string
IsoFormat(t) ==
    LET f == Fields(t) IN <<f.year, f.month, f.day, f.hour, f.minute>>

-----------------------------------------------------------------------------
(* Strings *)

Blank == 0

RECURSIVE LStrip(_)
LStrip(s) == IF s # <<>> /\ Head(s) = Blank THEN LStrip(Tail(s)) ELSE s

RECURSIVE RStrip(_)
RStrip(s) ==
    IF s # <<>> /\ s[Len(s)] = Blank THEN RStrip(SubSeq(s, 1, Len(s) - 1)) ELSE s

\* str.strip()
Strip(s) == RStrip(LStrip(s))

\* a < b for two strings, as Python compares them
RECURSIVE StrLess(_, _)
StrLess(a, b) ==
    IF b = <<>> THEN FALSE
    ELSE IF a = <<>> THEN TRUE
    ELSE IF Head(a) # Head(b) THEN Head(a) < Head(b)
    ELSE StrLess(Tail(a), Tail(b))

\* the list left in the order of the request
UnsortedStrs(l) == l

RECURSIVE InsertStr(_, _)
InsertStr(x, s) ==
    IF s = <<>> THEN <<x>>
    ELSE IF StrLess(x, Head(s)) THEN <<x>> \o s
    ELSE <<Head(s)>> \o InsertStr(x, Tail(s))

\* sorted(list of strings)
RECURSIVE SortedStrs(_)
SortedStrs(l) ==
    IF l = <<>> THEN <<>> ELSE InsertStr(l[Len(l)], SortedStrs(SubSeq(l, 1, Len(l) - 1)))

\* "".join(parts)
RECURSIVE Join(_)
Join(parts) == IF parts = <<>> THEN <<>> ELSE Head(parts) \o Join(Tail(parts))

Range(s) == {s[i] : i \in 1..Len(s)}

\* every occurrence is kept
KeepDuplicates(l) == l

\* list(dict.fromkeys(l)): first occurrence of every value, in order
RECURSIVE Dedup(_)
Dedup(l) ==
    IF l = <<>> THEN <<>>
    ELSE LET init == SubSeq(l, 1, Len(l) - 1)
             x    == l[Len(l)]
         IN  IF x \in Range(init) THEN Dedup(init) ELSE Dedup(init) \o <<x>>

\* [strip(x) for x in l if x and strip(x)]
RECURSIVE CleanList(_)
CleanList(l) ==
    IF l = <<>> THEN <<>>
    ELSE IF Strip(Head(l)) # <<>> THEN <<Strip(Head(l))>> \o CleanList(Tail(l))
    ELSE CleanList(Tail(l))

-----------------------------------------------------------------------------
(* Filter normalisation *)

Granularities == {"hour", "day", "week", "month", "year"}

\* str.lower() on the granularity values a request can carry
Lower(g) == IF g = "DAY" THEN "day" ELSE IF g = "Week" THEN "week" ELSE g

NoDate == [t |-> 0, k |-> "none"]

BadDate == [t |-> 0, k |-> "bad"]

Iso(t) == [t |-> t, k |-> "iso"]

\* datetime.now(UTC) when time.time() is n seconds after 2024-01-01T00:00Z
UtcNow(n) == DT(2024, 1, 1, 0, 0) + (n \div TickSeconds)

RECURSIVE MaxTs(_)
MaxTs(rows) ==
    IF Len(rows) = 1 THEN rows[1].timestamp
    ELSE LET m == MaxTs(Tail(rows))
         IN  IF rows[1].timestamp > m THEN rows[1].timestamp ELSE m

RECURSIVE MinTs(_)
MinTs(rows) ==
    IF Len(rows) = 1 THEN rows[1].timestamp
    ELSE LET m == MinTs(Tail(rows))
         IN  IF rows[1].timestamp < m THEN rows[1].timestamp ELSE m

FilterError ==
    [ok |-> FALSE, time_granularity |-> "month", start_date |-> 0, end_date |-> 0,
     models |-> <<>>, endpoints |-> <<>>, providers |-> <<>>]

\* TRUE when parse_filters has to ask the store for the date extents
NeedsProbe(req) == req.start_date.k = "none" \/ req.end_date.k = "none"

\* dates are exchanged never
NeverSwap(s, e) == FALSE

\* "if start_date > end_date": the two dates are exchanged
NeedsSwap(s, e) == s > e

\* the fallback is day
TimeGranularityDay(g) ==
    IF g = "none" THEN "day"
    ELSE IF Lower(g) \in Granularities THEN Lower(g) ELSE "day"

\* request.args.get('granularity', 'month').lower(), then TimeGranularity(..)
\* with MONTH in place of the ValueError; "none" is the absent parameter
TimeGranularityOf(g) ==
    IF g = "none" THEN "month"
    ELSE IF Lower(g) \in Granularities THEN Lower(g) ELSE "month"

\* parse_filters(): the FilterParams of a request, or FilterError when it raises
ParseFilters(req, rows, up, n) ==
    LET gran     == TimeGranularityOf(req.granularity)
        max_date == IF rows # <<>> THEN MaxTs(rows) ELSE UtcNow(n)
        min_date == IF rows # <<>> THEN MinTs(rows) ELSE max_date - 365 * TicksPerDay
        endRaw   == IF req.end_date.k = "none" THEN Iso(max_date) ELSE req.end_date
        startRaw == IF req.start_date.k = "none" THEN Iso(min_date) ELSE req.start_date
        swap     == NeedsSwap(startRaw.t, endRaw.t)
    IN  IF NeedsProbe(req) /\ ~up THEN FilterError
        ELSE IF startRaw.k = "bad" \/ endRaw.k = "bad" THEN FilterError
        ELSE [ok |-> TRUE,
              time_granularity |-> gran,
              start_date |-> IF swap THEN endRaw.t ELSE startRaw.t,
              end_date   |-> IF swap THEN startRaw.t ELSE endRaw.t,
              models    |-> Dedup(CleanList(req.model \o req.models)),
              endpoints |-> Dedup(CleanList(req.endpoint \o req.endpoints)),
              providers |-> Dedup(CleanList(req.provider \o req.providers))]

\* the store queries parse_filters sends (the max and the min timestamp)
ParseProbes(req, up) == IF ~NeedsProbe(req) THEN 0 ELSE IF up THEN 2 ELSE 1

-----------------------------------------------------------------------------
(* Event queries *)

\* .gte('timestamp', start).lt('timestamp', end) and the three .in_ filters
Matches(row, f) ==
    /\ row.timestamp >= f.start_date
    /\ row.timestamp < f.end_date
    /\ (f.models = <<>> \/ row.model \in Range(f.models))
    /\ (f.endpoints = <<>> \/ row.endpoint_name \in Range(f.endpoints))
    /\ (f.providers = <<>> \/ row.api_provider \in Range(f.providers))

\* the rows a filtered query returns, in table order
RECURSIVE QueryRows(_, _)
QueryRows(rows, f) ==
    IF rows = <<>> THEN <<>>
    ELSE IF Matches(Head(rows), f) THEN <<Head(rows)>> \o QueryRows(Tail(rows), f)
    ELSE QueryRows(Tail(rows), f)

-----------------------------------------------------------------------------
(* Trend: get_metrics_trend_internal *)

\* strftime of the bucket key: '%Y-%m-%d %H:00:00' and its variants per
\* granularity, as the tuple of its zero-padded fields
BucketKey(t, g) ==
    LET f == Fields(t)
        w == Fields(t - Weekday(t) * TicksPerDay)
    IN  IF g = "hour" THEN <<f.year, f.month, f.day, f.hour>>
        ELSE IF g = "day" THEN <<f.year, f.month, f.day, 0>>
        ELSE IF g = "week" THEN <<w.year, w.month, w.day, 0>>
        ELSE IF g = "month" THEN <<f.year, f.month, 1, 0>>
        ELSE <<f.year, 1, 1, 0>>

RaisedValueError == -1

\* datetime.replace(year=y, month=m): ValueError when the day does not exist
Replace(t, y, m) ==
    LET f == Fields(t)
    IN  IF f.day > DaysInMonth(y, m) THEN RaisedValueError
        ELSE DT(y, m, f.day, f.hour, f.minute)

\* "Increment current based on granularity"
Advance(t, g) ==
    LET f == Fields(t)
    IN  IF g = "hour" THEN t + TicksPerHour
        ELSE IF g = "day" THEN t + TicksPerDay
        ELSE IF g = "week" THEN t + 7 * TicksPerDay
        ELSE IF g = "month" THEN
            (IF f.month = 12 THEN Replace(t, f.year + 1, 1)
             ELSE Replace(t, f.year, f.month + 1))
        ELSE Replace(t, f.year + 1, f.month)

\* the loop "while current < filters.end_date": the keys of time_buckets
RECURSIVE InitBuckets(_, _, _)
InitBuckets(current, end, g) ==
    IF ~(current < end) THEN [raised |-> FALSE, keys |-> {}]
    ELSE LET nxt == Advance(current, g)
         IN  IF nxt = RaisedValueError THEN [raised |-> TRUE, keys |-> {}]
             ELSE LET rest == InitBuckets(nxt, end, g)
                  IN  [raised |-> rest.raised,
                       keys |-> {BucketKey(current, g)} \cup rest.keys]

\* a < b for two bucket keys, as strings of fixed-width fields compare
KeyLess(a, b) ==
    \E i \in 1..4 : a[i] < b[i] /\ \A j \in 1..(i - 1) : a[j] = b[j]

\* sorted(time_buckets): the keys in ascending order
RECURSIVE SortedKeys(_)
SortedKeys(ks) ==
    IF ks = {} THEN <<>>
    ELSE LET lo == CHOOSE k \in ks : \A o \in ks \ {k} : KeyLess(k, o)
         IN  <<lo>> \o SortedKeys(ks \ {lo})

\* what the rows whose bucket key is k add to time_buckets[k]
RECURSIVE BucketTotals(_, _, _)
BucketTotals(rows, k, g) ==
    IF rows = <<>> THEN [total_spend |-> 0, total_requests |-> 0, total_tokens |-> 0]
    ELSE LET r == BucketTotals(Tail(rows), k, g)
             h == Head(rows)
         IN  IF BucketKey(h.timestamp, g) = k
             THEN [total_spend |-> r.total_spend + h.total_cost,
                   total_requests |-> r.total_requests + 1,
                   total_tokens |-> r.total_tokens + h.total_tokens]
             ELSE r

TrendError(g) == [error |-> TRUE, metrics |-> <<>>, period |-> g]

\* get_metrics_trend_internal() once parse_filters has returned f
TrendOf(f, rows, up) ==
    LET b    == InitBuckets(f.start_date, f.end_date, f.time_granularity)
        data == QueryRows(rows, f)
        ks   == SortedKeys(b.keys)
    IN  IF b.raised \/ ~up THEN TrendError(f.time_granularity)
        ELSE [error |-> FALSE,
              metrics |-> [i \in 1..Len(ks) |->
                  LET t == BucketTotals(data, ks[i], f.time_granularity)
                  IN  [total_spend |-> t.total_spend,
                       total_requests |-> t.total_requests,
                       total_tokens |-> t.total_tokens,
                       period |-> ks[i]]],
              period |-> f.time_granularity]

-----------------------------------------------------------------------------
(* Summary: get_metrics_summary_internal *)

ZeroTotals == [total_spend |-> 0, total_requests |-> 0, total_tokens |-> 0]

\* the totals of the rows whose column col has value v
RECURSIVE GroupTotals(_, _, _)
GroupTotals(rows, col, v) ==
    IF rows = <<>> THEN ZeroTotals
    ELSE LET r == GroupTotals(Tail(rows), col, v)
             h == Head(rows)
         IN  IF h[col] = v
             THEN [total_spend |-> r.total_spend + h.total_cost,
                   total_requests |-> r.total_requests + 1,
                   total_tokens |-> r.total_tokens + h.total_tokens]
             ELSE r

\* provider_metrics / model_metrics / endpoint_metrics: one entry per value seen
Breakdown(rows, col) ==
    [v \in {rows[i][col] : i \in 1..Len(rows)} |-> GroupTotals(rows, col, v)]

RECURSIVE SumCost(_)
SumCost(rows) == IF rows = <<>> THEN 0 ELSE Head(rows).total_cost + SumCost(Tail(rows))

EmptyMap == [v \in {} |-> ZeroTotals]

SummaryError ==
    [total_spend |-> 0,
     total_requests |-> 0,
     error |-> TRUE,
     period |-> "filtered",
     provider_breakdown |-> EmptyMap,
     model_breakdown |-> EmptyMap,
     endpoint_breakdown |-> EmptyMap]

\* get_metrics_summary_internal(); avg_cost_per_request is total_spend /
\* total_requests and is not carried
SummaryOf(f, rows, up) ==
    LET data == QueryRows(rows, f)
    IN  IF ~f.ok \/ ~up THEN SummaryError
        ELSE [total_spend |-> SumCost(data),
              total_requests |-> Len(data),
              error |-> FALSE,
              period |-> "filtered",
              provider_breakdown |-> Breakdown(data, "api_provider"),
              model_breakdown |-> Breakdown(data, "model"),
              endpoint_breakdown |-> Breakdown(data, "endpoint_name")]

-----------------------------------------------------------------------------
(* Recommendations: get_model_usage_metrics and analyze_model_usage *)

\* the rows get_model_usage_metrics reads: date range and models only
RECURSIVE UsageRows(_, _)
UsageRows(rows, f) ==
    IF rows = <<>> THEN <<>>
    ELSE LET h == Head(rows)
         IN  IF /\ h.timestamp >= f.start_date
                /\ h.timestamp < f.end_date
                /\ (f.models = <<>> \/ h.model \in Range(f.models))
             THEN <<h>> \o UsageRows(Tail(rows), f)
             ELSE UsageRows(Tail(rows), f)

RECURSIVE ModelMetrics(_, _)
ModelMetrics(rows, m) ==
    IF rows = <<>>
    THEN [total_spend |-> 0, total_requests |-> 0, prompt_tokens |-> 0,
          completion_tokens |-> 0]
    ELSE LET r == ModelMetrics(Tail(rows), m)
             h == Head(rows)
         IN  IF h.model = m
             THEN [total_spend |-> r.total_spend + h.total_cost,
                   total_requests |-> r.total_requests + 1,
                   prompt_tokens |-> r.prompt_tokens + h.prompt_tokens,
                   completion_tokens |-> r.completion_tokens + h.completion_tokens]
             ELSE r

\* get_model_usage_metrics(): the models in order of first appearance (the
\* insertion order of the dict) and the metrics of each; {} when the query fails
UsageModels(f, rows, up) ==
    IF ~up THEN <<>>
    ELSE LET data == UsageRows(rows, f)
         IN  Dedup([i \in 1..Len(data) |-> data[i].model])

\* price_lookup: a later row of the table replaces an earlier one
HasPrice(prices, m) == \E i \in 1..Len(prices) : prices[i].model = m

PriceOf(prices, m) ==
    LET i == CHOOSE j \in 1..Len(prices) :
                 /\ prices[j].model = m
                 /\ \A k \in (j + 1)..Len(prices) : prices[k].model # m
    IN  prices[i]

\* potential_savings * 1000 (the code divides every product by 1000)
SavingsScale == 1000

PotentialSavings(mt, cur, alt) ==
    (mt.prompt_tokens * cur.input_price + mt.completion_tokens * cur.output_price)
    - (mt.prompt_tokens * alt.input_price + mt.completion_tokens * alt.output_price)

\* the gate with >= in the place of >
SignificantOrEqual(savings, mt) == savings * 10 >= mt.total_spend * SavingsScale

\* "if potential_savings > (model_metrics['total_spend'] * 0.1)"
Significant(savings, mt) == savings * 10 > mt.total_spend * SavingsScale

\* the alternatives rows a model's loop visits: source matches, and the
\* alternative has a price
PairsOf(model, alts, prices) ==
    SelectSeq(alts, LAMBDA a : a.source_model = model
                                /\ HasPrice(prices, a.alternative_model))

\* price_lookup[model] raises KeyError for a model that has such a pair
\* but no active price of its own
RaisesKeyError(models, alts, prices) ==
    \E i \in 1..Len(models) :
        /\ PairsOf(models[i], alts, prices) # <<>>
        /\ ~HasPrice(prices, models[i])

\* the recommendations appended for one model, in table order
ModelRecs(model, mt, alts, prices) ==
    LET pairs == PairsOf(model, alts, prices)
        all   == [i \in 1..Len(pairs) |->
                    [current_model |-> model,
                     recommended_model |-> pairs[i].alternative_model,
                     similarity_score |-> pairs[i].similarity_score,
                     potential_savings |->
                         PotentialSavings(mt, PriceOf(prices, model),
                                          PriceOf(prices, pairs[i].alternative_model)),
                     usage_count |-> mt.total_requests]]
    IN  SelectSeq(all, LAMBDA r : Significant(r.potential_savings, mt))

RECURSIVE AllRecs(_, _, _, _)
AllRecs(models, data, alts, prices) ==
    IF models = <<>> THEN <<>>
    ELSE ModelRecs(Head(models), ModelMetrics(data, Head(models)), alts, prices)
             \o AllRecs(Tail(models), data, alts, prices)

\* the list left in the order of its appends
NotSorted(l) == l

\* list.sort(key=potential_savings, reverse=True): stable, so equal savings
\* keep the order in which they were appended
RECURSIVE SortBySavings(_)
SortBySavings(l) ==
    IF l = <<>> THEN <<>>
    ELSE LET init == SortBySavings(SubSeq(l, 1, Len(l) - 1))
             x    == l[Len(l)]
             n    == Cardinality({i \in 1..Len(init) :
                                     init[i].potential_savings >= x.potential_savings})
         IN  SubSeq(init, 1, n) \o <<x>> \o SubSeq(init, n + 1, Len(init))

\* analyze_model_usage(): [] when the store or price_lookup raises
AnalyzeModelUsage(models, data, alts, prices, up) ==
    IF ~up \/ RaisesKeyError(models, alts, prices) THEN <<>>
    ELSE SortBySavings(AllRecs(models, data, alts, prices))

RECURSIVE SumSavings(_)
SumSavings(l) ==
    IF l = <<>> THEN 0 ELSE Head(l).potential_savings + SumSavings(Tail(l))

\* get_recommendations_internal() once parse_filters has returned f
RecommendationsOf(f, rows, alts, prices, up) ==
    LET models == UsageModels(f, rows, up)
        data   == UsageRows(rows, f)
        recs   == AnalyzeModelUsage(models, data, alts, prices, up)
    IN  [recommendations |-> recs,
         total_potential_savings |-> SumSavings(recs),
         filters |-> [start_date |-> IsoFormat(f.start_date),
                      end_date |-> IsoFormat(f.end_date),
                      models |-> f.models, endpoints |-> f.endpoints]]

-----------------------------------------------------------------------------
(* Query cache: make_cache_key, get_ttl_hash and the three lru_cache *)

Kinds == {"summary", "trend", "recommendations"}

\* str(kind): no kind is a prefix of another, one code stands for each
KindStr(kind) ==
    IF kind = "summary" THEN <<101>> ELSE IF kind = "trend" THEN <<102>> ELSE <<103>>

\* make_cache_key(kind, start.isoformat(), end.isoformat(), *sorted(models),
\* *sorted(endpoints), *sorted(providers)); md5 is taken to be injective, the
\* key is the string it digests
MakeCacheKey(kind, f) ==
    Join(<<KindStr(kind), IsoFormat(f.start_date), IsoFormat(f.end_date)>>
         \o SortedStrs(f.models) \o SortedStrs(f.endpoints) \o SortedStrs(f.providers))

TtlSeconds == 120

\* round(x / d) for integers: Python rounds a half to the even neighbour
RoundDiv(x, d) ==
    LET q == x \div d
        r == x % d
    IN  IF 2 * r < d THEN q
        ELSE IF 2 * r > d THEN q + 1
        ELSE IF q % 2 = 0 THEN q ELSE q + 1

\* the epoch as the floor of the quotient
TtlHashFloor(n) == n \div TtlSeconds

\* get_ttl_hash(minutes=2)
TtlHash(n) == RoundDiv(n, TtlSeconds)

LruMaxsize == 32

EmptyCaches == [k \in Kinds |-> <<>>]

\* the position of an entry of the key, whatever its epoch
CacheIndexAnyTtl(c, key, ttl) ==
    IF \E i \in 1..Len(c) : c[i].key = key
    THEN CHOOSE i \in 1..Len(c) : c[i].key = key
    ELSE 0

\* position of the entry of (key, ttl) in a cache, 0 when there is none
CacheIndex(c, key, ttl) ==
    IF \E i \in 1..Len(c) : c[i].key = key /\ c[i].ttl = ttl
    THEN CHOOSE i \in 1..Len(c) : c[i].key = key /\ c[i].ttl = ttl
    ELSE 0

\* a hit makes the entry the most recently used one
CacheTouch(c, i) == SubSeq(c, 1, i - 1) \o SubSeq(c, i + 1, Len(c)) \o <<c[i]>>

\* a full cache drops its most recently used entry
CacheInsertDropNewest(c, key, ttl, value) ==
    LET e == [key |-> key, ttl |-> ttl, value |-> value]
    IN  IF Len(c) >= LruMaxsize THEN SubSeq(c, 1, Len(c) - 1) \o <<e>> ELSE c \o <<e>>

\* a miss stores the result; a full cache drops its least recently used entry
CacheInsert(c, key, ttl, value) ==
    LET e == [key |-> key, ttl |-> ttl, value |-> value]
    IN  IF Len(c) >= LruMaxsize THEN Tail(c) \o <<e>> ELSE c \o <<e>>

SoftWatermark == 70

HardWatermark == 85

\* process.memory_percent() at the watermark, just above it, and above the
\* hard one
MemLevels == {SoftWatermark, SoftWatermark + 1, HardWatermark + 1}

\* the caches are cleared from the watermark on
CleanupCacheFromWatermark(cs, m) ==
    IF m >= SoftWatermark THEN EmptyCaches ELSE cs

\* cleanup_cache(): above 70 percent the three caches are cleared, and above
\* 85 percent once more
CleanupCache(cs, m) ==
    LET soft == IF m > SoftWatermark THEN EmptyCaches ELSE cs
    IN  IF m > HardWatermark THEN EmptyCaches ELSE soft

-----------------------------------------------------------------------------
(* Route handlers *)

\* the function behind each cache, once its parse_filters has returned f
Internal(kind, f, rows, alts, prices, up) ==
    IF kind = "summary" THEN SummaryOf(f, rows, up)
    ELSE IF kind = "trend" THEN TrendOf(f, rows, up)
    ELSE RecommendationsOf(f, rows, alts, prices, up)

\* the pages "while True: query.range(...)" fetches: the last one is empty
Pages(f, rows, up) == IF up /\ QueryRows(rows, f) # <<>> THEN 2 ELSE 1

\* the queries the function behind a cache sends to the store
InternalQueries(kind, req, f, rows, up) ==
    ParseProbes(req, up) +
    (IF kind = "summary" THEN Pages(f, rows, up)
     ELSE IF kind = "trend"
          THEN (IF InitBuckets(f.start_date, f.end_date, f.time_granularity).raised
                THEN 0 ELSE Pages(f, rows, up))
     ELSE (IF up THEN 3 ELSE 2))

NotComputed == -1

NoReq ==
    [start_date |-> NoDate,
     end_date |-> NoDate,
     models |-> <<>>,
     endpoints |-> <<>>,
     providers |-> <<>>,
     granularity |-> "none",
     model |-> <<>>,
     endpoint |-> <<>>,
     provider |-> <<>>]

NoResp ==
    [req |-> NoReq,
     kind |-> "none",
     key |-> <<>>,
     ttl |-> NotComputed,
     at |-> 0,
     status |-> 0,
     hit |-> FALSE,
     queries |-> 0,
     body |-> <<>>]

\* a route: parse_filters, make_cache_key, the cached call, jsonify; then the
\* after_request hook cleanup_after_request
Handle(kind, req, m) ==
    LET f     == ParseFilters(req, store, storeUp, now)
        key   == MakeCacheKey(kind, f)
        ttl   == TtlHash(now)
        c     == caches[kind]
        i     == CacheIndex(c, key, ttl)
        value == IF i > 0 THEN c[i].value
                 ELSE Internal(kind, f, store, alternatives, pricing, storeUp)
        after == IF i > 0 THEN CacheTouch(c, i) ELSE CacheInsert(c, key, ttl, value)
    IN  /\ served < MaxRequests
        /\ served' = served + 1
        /\ IF f.ok
           THEN /\ resp' = [req |-> req,
                            kind |-> kind,
                            key |-> key,
                            ttl |-> ttl,
                            at |-> now,
                            status |-> 200,
                            hit |-> i > 0,
                            queries |-> ParseProbes(req, storeUp) +
                                (IF i > 0 THEN 0
                                 ELSE InternalQueries(kind, req, f, store, storeUp)),
                            body |-> value]
                /\ caches' = CleanupCache([caches EXCEPT ![kind] = after], m)
           ELSE /\ resp' = [req |-> req,
                            kind |-> kind,
                            key |-> <<>>,
                            ttl |-> NotComputed,
                            at |-> now,
                            status |-> 500,
                            hit |-> FALSE,
                            queries |-> ParseProbes(req, storeUp),
                            body |-> <<>>]
                /\ caches' = CleanupCache(caches, m)
        /\ mem' = m
        /\ UNCHANGED <<now, storeUp, store, alternatives, pricing,
                    inflight, sdk>>

-----------------------------------------------------------------------------
(* Data the specifications draw from *)

NameA == <<1>>

NameB == <<2>>

NameAB == <<1, 2>>

NameC == <<3>>

Provider1 == <<7>>

Provider2 == <<8>>

Row(ts, model, endpoint, provider, prompt, completion, cost) ==
    [timestamp |-> ts,
     model |-> model,
     endpoint_name |-> endpoint,
     api_provider |-> provider,
     total_tokens |-> prompt + completion,
     total_cost |-> cost,
     prompt_tokens |-> prompt,
     completion_tokens |-> completion]

Req(sd, ed, models, endpoints, providers, g) ==
    [start_date |-> sd,
     end_date |-> ed,
     models |-> <<>>,
     endpoints |-> <<>>,
     providers |-> <<>>,
     granularity |-> g,
     model |-> models,
     endpoint |-> endpoints,
     provider |-> providers]

TrendInstants ==
    {DT(2024, 1, 1, 0, 0), DT(2024, 1, 1, 0, 30), DT(2024, 1, 1, 2, 30),
     DT(2024, 1, 2, 12, 0), DT(2024, 1, 4, 6, 0), DT(2024, 1, 17, 0, 0),
     DT(2024, 1, 31, 0, 0), DT(2024, 2, 29, 0, 0), DT(2024, 4, 10, 0, 0),
     DT(2025, 3, 1, 0, 0), DT(2026, 1, 1, 0, 0)}

TrendStores ==
    {<<>>,
     <<Row(DT(2024, 1, 1, 0, 0), NameA, NameA, Provider1, 10, 5, 7),
       Row(DT(2024, 1, 1, 2, 0), NameB, NameA, Provider1, 20, 5, 11),
       Row(DT(2024, 1, 3, 3, 0), NameA, NameB, Provider2, 30, 5, 13),
       Row(DT(2024, 1, 4, 1, 0), NameB, NameB, Provider2, 30, 5, 29),
       Row(DT(2024, 1, 15, 1, 0), NameA, NameA, Provider1, 40, 5, 17)>>,
     <<Row(DT(2024, 2, 10, 0, 0), NameA, NameA, Provider1, 10, 5, 3),
       Row(DT(2024, 4, 5, 0, 0), NameB, NameB, Provider2, 20, 5, 5),
       Row(DT(2025, 1, 20, 0, 0), NameA, NameA, Provider1, 30, 5, 19),
       Row(DT(2025, 12, 31, 23, 30), NameB, NameA, Provider1, 40, 5, 23)>>}

\* the shortest duration of one unit of a granularity, in ticks
UnitTicks(g) ==
    IF g = "hour" THEN TicksPerHour
    ELSE IF g = "day" THEN TicksPerDay
    ELSE IF g = "week" THEN 7 * TicksPerDay
    ELSE IF g = "month" THEN 28 * TicksPerDay
    ELSE 365 * TicksPerDay

\* the requests whose bucket loop runs at most MaxBuckets times
TrendBounded(f) ==
    f.end_date - f.start_date <= MaxBuckets * UnitTicks(f.time_granularity)

-----------------------------------------------------------------------------
(* The trend operation on its own *)

InitTrend ==
    /\ now = 0
    /\ storeUp = TRUE
    /\ mem = 0
    /\ store \in TrendStores
    /\ alternatives = <<>>
    /\ pricing = <<>>
    /\ caches = EmptyCaches
    /\ resp = NoResp
    /\ served = 0
    /\ inflight = <<>>
    /\ sdk = SdkIdle

\* get_metrics_trend_internal() for one request
GetMetricsTrendInternal(req) ==
    LET f == ParseFilters(req, store, storeUp, now)
    IN  /\ resp.kind = "none"
        /\ f.ok
        /\ TrendBounded(f)
        /\ resp' = [req |-> req,
                    kind |-> "trend",
                    key |-> MakeCacheKey("trend", f),
                    ttl |-> NotComputed,
                    at |-> now,
                    status |-> 200,
                    hit |-> FALSE,
                    queries |-> InternalQueries("trend", req, f, store, storeUp),
                    body |-> TrendOf(f, store, storeUp)]
        /\ UNCHANGED <<now, storeUp, mem, store, alternatives, pricing, caches, served,
                    inflight, sdk>>

NextTrend ==
    \E sd \in {Iso(t) : t \in TrendInstants} \cup {NoDate},
       ed \in {Iso(t) : t \in TrendInstants} \cup {NoDate},
       ms \in {<<>>, <<NameA>>},
       g \in Granularities :
        GetMetricsTrendInternal(Req(sd, ed, ms, <<>>, <<>>, g))

SpecTrend == InitTrend /\ [][NextTrend]_vars

-----------------------------------------------------------------------------
(* The request pipeline with its caches *)

MaxStore == 3

TickStep == 80

CacheStart == DT(2024, 1, 1, 0, 0)

CacheEnd == DT(2024, 1, 3, 0, 0)

CacheStore ==
    <<Row(DT(2024, 1, 1, 6, 0), NameA, NameA, Provider1, 2000, 1000, 90),
      Row(DT(2024, 1, 2, 6, 0), NameB, NameB, Provider2, 1000, 1000, 4)>>

IngestRows == {Row(DT(2024, 1, 2, 8, 0), NameA, NameB, Provider1, 1000, 2000, 120)}

CacheAlternatives ==
    <<[source_model |-> NameA, alternative_model |-> NameB, similarity_score |-> 80]>>

CachePricing ==
    <<[model |-> NameA, input_price |-> 30, output_price |-> 60],
      [model |-> NameB, input_price |-> 1, output_price |-> 2]>>

CacheRequests ==
    {Req(Iso(CacheStart), Iso(CacheEnd), <<NameB, NameA>>, <<NameB, NameA>>,
         <<Provider2, Provider1>>, "day"),
     Req(Iso(CacheEnd), Iso(CacheStart), <<NameA, NameB>>, <<NameA, NameB>>,
         <<Provider1, Provider2>>, "day"),
     Req(NoDate, NoDate, <<>>, <<>>, <<>>, "none"),
     Req(BadDate, Iso(CacheEnd), <<>>, <<>>, <<>>, "day")}

Init ==
    /\ now = 0
    /\ storeUp = TRUE
    /\ mem = 0
    /\ store = CacheStore
    /\ alternatives = CacheAlternatives
    /\ pricing = CachePricing
    /\ caches = EmptyCaches
    /\ resp = NoResp
    /\ served = 0
    /\ inflight = <<>>
    /\ sdk = SdkIdle

\* GET /api/metrics/summary
GetMetricsSummary(req, m) == Handle("summary", req, m)

\* GET /api/metrics/trend
GetMetricsTrend(req, m) == Handle("trend", req, m)

\* GET /api/recommendations
GetRecommendations(req, m) == Handle("recommendations", req, m)

\* time.time() moves on
Tick ==
    /\ now + TickStep <= MaxNow
    /\ now' = now + TickStep
    /\ UNCHANGED <<storeUp, mem, store, alternatives, pricing, caches, resp, served,
                    inflight, sdk>>

\* the store stops answering, or answers again
StoreFails ==
    /\ storeUp
    /\ storeUp' = FALSE
    /\ UNCHANGED <<now, mem, store, alternatives, pricing, caches, resp, served,
                    inflight, sdk>>

StoreRecovers ==
    /\ ~storeUp
    /\ storeUp' = TRUE
    /\ UNCHANGED <<now, mem, store, alternatives, pricing, caches, resp, served,
                    inflight, sdk>>

\* insert_token_log(): one more row in token_logs
InsertTokenLog(row) ==
    /\ storeUp
    /\ Len(store) < MaxStore
    /\ store' = Append(store, row)
    /\ UNCHANGED <<now, storeUp, mem, alternatives, pricing, caches, resp, served,
                    inflight, sdk>>

Next ==
    \/ \E req \in CacheRequests, m \in MemLevels : GetMetricsSummary(req, m)
    \/ \E req \in CacheRequests, m \in MemLevels : GetMetricsTrend(req, m)
    \/ \E req \in CacheRequests, m \in MemLevels : GetRecommendations(req, m)
    \/ Tick
    \/ \E row \in IngestRows : InsertTokenLog(row)

Spec == Init /\ [][Next]_vars

\* the pipeline with a store that can stop answering
NextOutage ==
    \/ Next
    \/ StoreFails
    \/ StoreRecovers

SpecOutage == Init /\ [][NextOutage]_vars

-----------------------------------------------------------------------------
(* Properties of the trend *)

\* the filter of the request the last response answers
RespFilter == ParseFilters(resp.req, store, storeUp, resp.at)

RECURSIVE SumSpend(_)
SumSpend(ms) == IF ms = <<>> THEN 0 ELSE Head(ms).total_spend + SumSpend(Tail(ms))

RECURSIVE SumRequests(_)
SumRequests(ms) ==
    IF ms = <<>> THEN 0 ELSE Head(ms).total_requests + SumRequests(Tail(ms))

\* C1: the spend of the buckets of a trend that was computed without error
\* adds up to the cost of the events that match its filter, and every matching
\* event is counted in one bucket
TrendConservation ==
    (resp.kind = "trend" /\ ~resp.body.error) =>
        /\ SumSpend(resp.body.metrics) = SumCost(QueryRows(store, RespFilter))
        /\ SumRequests(resp.body.metrics) = Len(QueryRows(store, RespFilter))

\* the first instant of the calendar unit that holds t
UnitStart(t, g) == LET k == BucketKey(t, g) IN DT(k[1], k[2], k[3], k[4], 0)

\* the first instant of the calendar unit after the one that starts at u
NextUnitStart(u, g) ==
    LET f == Fields(u)
    IN  IF g = "hour" THEN u + TicksPerHour
        ELSE IF g = "day" THEN u + TicksPerDay
        ELSE IF g = "week" THEN u + 7 * TicksPerDay
        ELSE IF g = "month" THEN
            (IF f.month = 12 THEN DT(f.year + 1, 1, 1, 0, 0)
             ELSE DT(f.year, f.month + 1, 1, 0, 0))
        ELSE DT(f.year + 1, 1, 1, 0, 0)

\* the calendar units from the one that starts at u to the one that holds
\* the last instant before end
RECURSIVE UnitsFrom(_, _, _)
UnitsFrom(u, end, g) ==
    IF ~(u < end) THEN <<>>
    ELSE <<BucketKey(u, g)>> \o UnitsFrom(NextUnitStart(u, g), end, g)

UnitsOfRange(f) ==
    IF f.start_date < f.end_date
    THEN UnitsFrom(UnitStart(f.start_date, f.time_granularity), f.end_date,
                   f.time_granularity)
    ELSE <<>>

\* C2: the buckets of a trend are the calendar units of [start, end), one
\* each, in order and without gaps, from the unit of the filter start on;
\* units without events are present with zero metrics (a trend that failed
\* with an error is left aside)
TrendDense ==
    (resp.kind = "trend" /\ ~resp.body.error) =>
        [i \in 1..Len(resp.body.metrics) |-> resp.body.metrics[i].period]
            = UnitsOfRange(RespFilter)

-----------------------------------------------------------------------------
(* Properties of the query cache *)

\* a step of a route handler
Handled == served' # served

\* the last two responses answer the same query
SameQuery == resp'.kind = resp.kind /\ resp'.req = resp.req /\ resp'.status = 200

\* the window of floor(now / ttl_window) that holds the instant n
FloorWindow(n) == n \div TtlSeconds

\* C3 as stated: of two identical queries in one TTL window the second returns
\* the same result without a store call; after the window a store call is made
CacheRoundTripAsStated ==
    [][(Handled /\ SameQuery) =>
          IF FloorWindow(resp.at) = FloorWindow(now)
          THEN resp'.body = resp.body /\ resp'.queries = 0
          ELSE resp'.queries > 0]_vars

\* C3: of two identical queries with explicit valid dates whose times round to
\* the same epoch, with no cache clear by memory pressure in between, the
\* second returns the same result without a store query; once the epoch has
\* changed the result is computed again, with its store queries
CacheRoundTrip ==
    [][(Handled /\ SameQuery /\ ~NeedsProbe(resp.req)) =>
          IF TtlHash(resp.at) = TtlHash(now)
          THEN mem <= SoftWatermark => (resp'.body = resp.body /\ resp'.queries = 0)
          ELSE /\ ~resp'.hit
               /\ resp'.queries > 0 \/ (resp'.kind = "trend" /\ resp'.body.error)]_vars

\* a second identical query has been answered from the cache
CacheRoundTripWitness ==
    /\ served = 2
    /\ resp.status = 200
    /\ resp.hit
    /\ resp.queries = 0
    /\ ~NeedsProbe(resp.req)

\* C4 as stated: the epoch of a request is floor(now / ttl_window)
TtlEpochAsStated == resp.ttl # NotComputed => resp.ttl = FloorWindow(resp.at)

\* C4: the epoch of a request is now / ttl_window rounded to the nearest
\* integer, a half going to the even neighbour: requests share the epoch e
\* exactly when their times lie within half a window of e * ttl_window
TtlEpochRounded ==
    resp.ttl # NotComputed =>
        LET d == 2 * resp.at - 2 * TtlSeconds * resp.ttl
        IN  /\ d <= TtlSeconds
            /\ d >= 0 - TtlSeconds
            /\ (d = TtlSeconds \/ d = 0 - TtlSeconds) => resp.ttl % 2 = 0

\* an epoch was computed at an instant that floor and round place differently
TtlEpochWitness ==
    /\ resp.ttl # NotComputed
    /\ resp.ttl # FloorWindow(resp.at)

Reverse(l) == [i \in 1..Len(l) |-> l[Len(l) + 1 - i]]

\* the requests that differ from req in the order of their filter lists
Reorderings(req) ==
    {[req EXCEPT !.model = ms, !.endpoint = es, !.provider = ps] :
        ms \in {req.model, Reverse(req.model)},
        es \in {req.endpoint, Reverse(req.endpoint)},
        ps \in {req.provider, Reverse(req.provider)}}

\* C5: requests of one kind with the same dates whose filter lists are
\* permutations of each other have the same cache key
CacheKeyOrderFree ==
    (resp.status = 200 /\ resp.ttl # NotComputed /\ ~NeedsProbe(resp.req)) =>
        \A r \in Reorderings(resp.req) :
            MakeCacheKey(resp.kind, ParseFilters(r, store, storeUp, resp.at)) = resp.key

\* a key was made for a request whose lists are not in sorted order
CacheKeyOrderWitness ==
    /\ resp.status = 200
    /\ resp.ttl # NotComputed
    /\ ~NeedsProbe(resp.req)
    /\ resp.req.model # SortedStrs(resp.req.model)
    /\ resp.req.endpoint # SortedStrs(resp.req.endpoint)
    /\ resp.req.provider # SortedStrs(resp.req.provider)

\* the request with the two dates exchanged
Swapped(req) == [req EXCEPT !.start_date = req.end_date, !.end_date = req.start_date]

\* what a route would answer to a request in the current state
RouteBody(kind, req) ==
    LET f   == ParseFilters(req, store, storeUp, now)
        i   == CacheIndex(caches[kind], MakeCacheKey(kind, f), TtlHash(now))
    IN  IF ~f.ok THEN <<>>
        ELSE IF i > 0 THEN caches[kind][i].value
        ELSE Internal(kind, f, store, alternatives, pricing, storeUp)

ReversedDates(req) ==
    /\ req.start_date.k = "iso"
    /\ req.end_date.k = "iso"
    /\ req.start_date.t > req.end_date.t

-----------------------------------------------------------------------------
(* get_ttl_hash on its own *)

MaxClock == 400

InitTtl ==
    /\ now \in 0..MaxClock
    /\ storeUp = TRUE
    /\ mem = 0
    /\ store = <<>>
    /\ alternatives = <<>>
    /\ pricing = <<>>
    /\ caches = EmptyCaches
    /\ resp = NoResp
    /\ served = 0
    /\ inflight = <<>>
    /\ sdk = SdkIdle

\* get_ttl_hash() at the current time
GetTtlHash ==
    /\ resp.kind = "none"
    /\ resp' = [NoResp EXCEPT !.kind = "ttl", !.at = now, !.ttl = TtlHash(now)]
    /\ UNCHANGED <<now, storeUp, mem, store, alternatives, pricing, caches, served,
                    inflight, sdk>>

NextTtl == GetTtlHash

SpecTtl == InitTtl /\ [][NextTtl]_vars

-----------------------------------------------------------------------------
(* The recommendations on their own *)

RecStart == DT(2024, 1, 1, 0, 0)

RecEnd == DT(2024, 2, 1, 0, 0)

RecStores ==
    {<<Row(DT(2024, 1, 5, 0, 0), NameA, NameA, Provider1, 1000, 1000, 90),
       Row(DT(2024, 1, 6, 0, 0), NameA, NameB, Provider2, 1000, 1000, 90),
       Row(DT(2024, 1, 7, 0, 0), NameB, NameA, Provider1, 2000, 0, 10)>>,
     <<Row(DT(2024, 1, 5, 0, 0), NameB, NameA, Provider1, 1000, 1000, 8),
       Row(DT(2024, 1, 6, 0, 0), NameA, NameA, Provider1, 1000, 1000, 90),
       Row(DT(2024, 2, 6, 0, 0), NameA, NameA, Provider1, 5000, 5000, 450)>>}

Alt(src, alt, score) ==
    [source_model |-> src, alternative_model |-> alt, similarity_score |-> score]

Price(m, pin, pout) == [model |-> m, input_price |-> pin, output_price |-> pout]

RecAlternatives ==
    {<<>>,
     <<Alt(NameA, NameAB, 60), Alt(NameA, NameB, 50), Alt(NameA, NameC, 90),
       Alt(NameB, NameC, 70)>>,
     <<Alt(NameA, NameC, 90), Alt(NameA, NameAB, 60), Alt(NameA, NameB, 50)>>}

RecPricings ==
    {<<>>,
     <<Price(NameA, 30, 60), Price(NameB, 3, 6), Price(NameC, 3, 6),
       Price(NameAB, 6, 12)>>,
     <<Price(NameB, 3, 6), Price(NameC, 1, 2)>>,
     <<Price(NameA, 30, 60), Price(NameC, 27, 54), Price(NameAB, 29, 55),
       Price(NameB, 3, 6)>>}

InitRec ==
    /\ now = 0
    /\ storeUp = TRUE
    /\ mem = 0
    /\ store \in RecStores
    /\ alternatives \in RecAlternatives
    /\ pricing \in RecPricings
    /\ caches = EmptyCaches
    /\ resp = NoResp
    /\ served = 0
    /\ inflight = <<>>
    /\ sdk = SdkIdle

\* get_recommendations_internal() for one request
GetRecommendationsInternal(req) ==
    LET f == ParseFilters(req, store, storeUp, now)
    IN  /\ resp.kind = "none"
        /\ f.ok
        /\ resp' = [req |-> req,
                    kind |-> "recommendations",
                    key |-> MakeCacheKey("recommendations", f),
                    ttl |-> NotComputed,
                    at |-> now,
                    status |-> 200,
                    hit |-> FALSE,
                    queries |-> InternalQueries("recommendations", req, f, store, storeUp),
                    body |-> RecommendationsOf(f, store, alternatives, pricing, storeUp)]
        /\ UNCHANGED <<now, storeUp, mem, store, alternatives, pricing, caches, served,
                    inflight, sdk>>

NextRec ==
    \E sd \in {Iso(RecStart), Iso(DT(2024, 1, 6, 0, 0)), NoDate},
       ed \in {Iso(RecEnd), Iso(DT(2024, 3, 1, 0, 0))},
       ms \in {<<>>, <<NameA>>},
       es \in {<<>>, <<NameA>>},
       ps \in {<<>>, <<Provider1>>} :
        GetRecommendationsInternal(Req(sd, ed, ms, es, ps, "none"))

SpecRec == InitRec /\ [][NextRec]_vars

Recs == resp.body.recommendations

IsRecs == resp.kind = "recommendations" /\ resp.status = 200

\* C7 as stated: descending potential_savings, equal savings by descending
\* similarity_score
RecsSortedAsStated ==
    IsRecs =>
        \A i, j \in 1..Len(Recs) :
            i < j =>
                \/ Recs[i].potential_savings > Recs[j].potential_savings
                \/ /\ Recs[i].potential_savings = Recs[j].potential_savings
                   /\ Recs[i].similarity_score >= Recs[j].similarity_score

\* the position of a value in a list
IndexIn(l, x) == CHOOSE i \in 1..Len(l) : l[i] = x

\* the models of the usage rows of the window, in order of first appearance
WindowModels ==
    LET f    == RespFilter
        rows == SelectSeq(store, LAMBDA r :
                    /\ r.timestamp >= f.start_date
                    /\ r.timestamp < f.end_date)
    IN  Dedup([i \in 1..Len(rows) |-> rows[i].model])

\* recommendation a is appended before recommendation b: its model comes
\* first in the usage, or its row comes first in the alternatives table
EmittedBefore(a, b) ==
    LET ma == IndexIn(WindowModels, a.current_model)
        mb == IndexIn(WindowModels, b.current_model)
        ra == IndexIn(alternatives, Alt(a.current_model, a.recommended_model,
                                        a.similarity_score))
        rb == IndexIn(alternatives, Alt(b.current_model, b.recommended_model,
                                        b.similarity_score))
    IN  ma < mb \/ (ma = mb /\ ra < rb)

\* C7: the list is in descending order of potential_savings; entries with
\* equal savings are in the order in which they were appended
RecsSorted ==
    IsRecs =>
        \A i, j \in 1..Len(Recs) :
            i < j =>
                \/ Recs[i].potential_savings > Recs[j].potential_savings
                \/ /\ Recs[i].potential_savings = Recs[j].potential_savings
                   /\ EmittedBefore(Recs[i], Recs[j])

\* a list with two entries of equal savings and one of other savings
RecsSortedWitness ==
    /\ IsRecs
    /\ \E i, j \in 1..Len(Recs) :
           /\ i < j
           /\ Recs[i].potential_savings = Recs[j].potential_savings
    /\ \E i, j \in 1..Len(Recs) :
           Recs[i].potential_savings > Recs[j].potential_savings

\* the spend of a model in the date window of the request
WindowSpend(m) ==
    LET f == RespFilter
    IN  SumCost(SelectSeq(store, LAMBDA r :
            /\ r.model = m
            /\ r.timestamp >= f.start_date
            /\ r.timestamp < f.end_date))

\* C8: every recommendation that is emitted saves more than a tenth of the
\* spend of its model in the window
SignificanceGate ==
    IsRecs =>
        \A i \in 1..Len(Recs) :
            Recs[i].potential_savings * 10 >
                WindowSpend(Recs[i].current_model) * SavingsScale

\* the window has a model with two priced alternatives, one emitted and one
\* that saves exactly a tenth of the spend and is held back
SignificanceGateWitness ==
    /\ IsRecs
    /\ Len(Recs) = 1
    /\ \E i \in 1..Len(alternatives) :
           /\ alternatives[i].source_model = Recs[1].current_model
           /\ alternatives[i].alternative_model # Recs[1].recommended_model
           /\ HasPrice(pricing, alternatives[i].alternative_model)

\* the metrics analyze_model_usage is given for a model of the window
WindowMetrics(m) == ModelMetrics(UsageRows(store, RespFilter), m)

HasRec(m, a) ==
    \E i \in 1..Len(Recs) :
        Recs[i].current_model = m /\ Recs[i].recommended_model = a

\* C9: a model without an active price or without an alternative has no
\* recommendation, and the recommendations of the other models are emitted;
\* without reference data the list is empty
ReferenceGapsIsolated ==
    IsRecs =>
        /\ \A i \in 1..Len(Recs) : HasPrice(pricing, Recs[i].current_model)
        /\ \A m \in Range(UsageModels(RespFilter, store, storeUp)) :
               \A i \in 1..Len(alternatives) :
                   LET a == alternatives[i].alternative_model
                   IN  (/\ alternatives[i].source_model = m
                        /\ HasPrice(pricing, m)
                        /\ HasPrice(pricing, a)
                        /\ Significant(
                               PotentialSavings(WindowMetrics(m), PriceOf(pricing, m),
                                                PriceOf(pricing, a)),
                               WindowMetrics(m)))
                       => HasRec(m, a)
        /\ (alternatives = <<>> \/ pricing = <<>>) => Recs = <<>>

\* the number of rows of a model that match every filter of the request
MatchingCount(m) ==
    Len(SelectSeq(store, LAMBDA r : r.model = m /\ Matches(r, RespFilter)))

\* C10: the usage behind a recommendation is the usage of the events that
\* match every filter of the request
RecsFromFilteredUsage ==
    IsRecs =>
        \A i \in 1..Len(Recs) :
            Recs[i].usage_count = MatchingCount(Recs[i].current_model)

-----------------------------------------------------------------------------
(* Time series: SupabaseClient.get_timeseries_data *)

\* a row of token_logs as select('*') returns it; parses is FALSE when
\* datetime.fromisoformat cannot read the timestamp string of the row
Log(ts, parses, model, endpoint, tokens, cost) ==
    [timestamp |-> ts, model |-> model, endpoint_name |-> endpoint,
     total_tokens |-> tokens, total_cost |-> cost, parses |-> parses]

Intervals == {"hour", "day", "week", "month"}

\* The words of a label, one code each; a code below WordBase is the number
\* it spells
WordBase == 10000

\* '%b': Jan .. Dec
MonthAbbr(m) == WordBase + m

\* '%a' of datetime.weekday() w: Mon .. Sun
WeekdayAbbr(w) == 2 * WordBase + w

AM == 3 * WordBase + 1

PM == 3 * WordBase + 2

\* "Unknown Date".split()
UnknownDate == <<4 * WordBase + 1, 4 * WordBase + 2>>

\* int(word) succeeds
IsNumber(word) == word < WordBase

\* get_token_logs(): start T00:00:00 <= timestamp <= end T23:59:59, and the
\* optional model and endpoint_name equalities
GetTokenLogs(rows, req) ==
    SelectSeq(rows, LAMBDA r :
        /\ r.timestamp >= req.start_date.t
        /\ r.timestamp < req.end_date.t + TicksPerDay
        /\ (req.model = <<>> \/ r.model = req.model[1])
        /\ (req.endpoint = <<>> \/ r.endpoint_name = req.endpoint[1]))

\* "log_timestamp.startswith(target_date_str)": the rows of the end date
OnEndDate(rows, req) ==
    SelectSeq(rows, LAMBDA r :
        r.timestamp \div TicksPerDay = req.end_date.t \div TicksPerDay)

\* logs.sort(key=timestamp): stable, ascending
RECURSIVE InsertLog(_, _)
InsertLog(x, s) ==
    IF s = <<>> THEN <<x>>
    ELSE IF x.timestamp <= Head(s).timestamp THEN <<x>> \o s
    ELSE <<Head(s)>> \o InsertLog(x, Tail(s))

RECURSIVE SortLogs(_)
SortLogs(l) ==
    IF l = <<>> THEN <<>>
    ELSE InsertLog(Head(l), SortLogs(Tail(l)))

\* '%-I': the hour on the 12-hour clock
Hour12(h) == IF h % 12 = 0 THEN 12 ELSE h % 12

\* extract_date_key(): the words of the label of a row
ExtractDateKey(r, interval) ==
    LET f == Fields(r.timestamp)
    IN  IF ~r.parses THEN UnknownDate
        ELSE IF interval = "hour"
             THEN <<Hour12(f.hour), IF f.hour < 12 THEN AM ELSE PM>>
        ELSE IF interval = "week"
             THEN <<WeekdayAbbr(Weekday(r.timestamp)), f.day>>
        ELSE <<MonthAbbr(f.month), f.day>>

\* the points of grouped_data, in the order their keys were first seen
RECURSIVE GroupPoints(_, _)
GroupPoints(logs, interval) ==
    IF logs = <<>> THEN <<>>
    ELSE LET init == GroupPoints(SubSeq(logs, 1, Len(logs) - 1), interval)
             r    == logs[Len(logs)]
             k    == ExtractDateKey(r, interval)
         IN  IF \E i \in 1..Len(init) : init[i].display_key = k
             THEN [i \in 1..Len(init) |->
                      IF init[i].display_key = k
                      THEN [init[i] EXCEPT !.value = @ + r.total_tokens,
                                           !.cost = @ + r.total_cost]
                      ELSE init[i]]
             ELSE Append(init, [value |-> r.total_tokens,
                                cost |-> r.total_cost,
                                display_key |-> k])

\* weekday_order.get(weekday, 7): Sun is 0, Sat is 6
WeekdayOrder(word) ==
    IF word = WeekdayAbbr(6) THEN 0
    ELSE IF word \in {WeekdayAbbr(w) : w \in 0..5} THEN word - 2 * WordBase + 1
    ELSE 7

\* [Jan .. Dec].index(word), or RaisedValueError
MonthIndex(word) ==
    IF word \in {MonthAbbr(m) : m \in 1..12} THEN word - WordBase - 1
    ELSE RaisedValueError

\* the sort key rebuilt from the label, or RaisedValueError
SortKey(k, interval) ==
    IF interval = "hour"
    THEN IF ~IsNumber(k[1]) THEN RaisedValueError
         ELSE IF k[2] = PM /\ k[1] < 12 THEN k[1] + 12
         ELSE IF k[2] = AM /\ k[1] = 12 THEN 0
         ELSE k[1]
    ELSE IF interval = "day"
    THEN IF MonthIndex(k[1]) = RaisedValueError \/ ~IsNumber(k[2])
         THEN RaisedValueError
         ELSE MonthIndex(k[1]) * 100 + k[2]
    ELSE IF interval = "week"
    THEN WeekdayOrder(k[1]) * 100 + (IF IsNumber(k[2]) THEN k[2] ELSE 0)
    ELSE IF MonthIndex(k[1]) = RaisedValueError THEN RaisedValueError
         ELSE IF IsNumber(k[2]) THEN k[2] * 100 + MonthIndex(k[1])
         ELSE MonthIndex(k[1]) * 100

\* result.sort(key=sort_key): stable, ascending
RECURSIVE InsertPoint(_, _, _)
InsertPoint(x, s, interval) ==
    IF s = <<>> THEN <<x>>
    ELSE IF SortKey(x.display_key, interval) <= SortKey(Head(s).display_key, interval)
         THEN <<x>> \o s
    ELSE <<Head(s)>> \o InsertPoint(x, Tail(s), interval)

RECURSIVE SortPoints(_, _)
SortPoints(l, interval) ==
    IF l = <<>> THEN <<>>
    ELSE InsertPoint(Head(l), SortPoints(Tail(l), interval), interval)

\* the sample point of an empty result, labelled from datetime.now()
SamplePoint(interval, n) ==
    LET t      == UtcNow(n)
        f      == Fields(t)
        sunday == Fields(t - (Weekday(t) + 1) * TicksPerDay)
    IN  [value |-> 0,
         cost |-> 0,
         display_key |->
             IF interval = "day"
             THEN <<Hour12(f.hour), IF f.hour < 12 THEN AM ELSE PM>>
             ELSE IF interval = "week" THEN <<MonthAbbr(sunday.month), sunday.day>>
             ELSE <<MonthAbbr(f.month), f.year>>]

\* the rows get_timeseries_data groups
SeriesLogs(rows, req) ==
    LET logs == GetTokenLogs(rows, req)
    IN  SortLogs(IF req.granularity = "day" THEN OnEndDate(logs, req) ELSE logs)

\* get_timeseries_data(): the value of "data"
TimeseriesData(rows, req, up, n) ==
    LET interval == req.granularity
        result   == GroupPoints(SeriesLogs(rows, req), interval)
    IN  IF ~up THEN <<>>
        ELSE IF GetTokenLogs(rows, req) = <<>> THEN <<>>
        ELSE IF \E i \in 1..Len(result) :
                    SortKey(result[i].display_key, interval) = RaisedValueError
             THEN <<>>
        ELSE IF result = <<>> THEN <<SamplePoint(interval, n)>>
        ELSE SortPoints(result, interval)

-----------------------------------------------------------------------------
(* The time series operation on its own *)

SeriesDays ==
    {DT(2024, 1, 5, 0, 0), DT(2024, 1, 6, 0, 0), DT(2024, 1, 8, 0, 0),
     DT(2024, 2, 3, 0, 0), DT(2024, 3, 1, 0, 0)}

SeriesStores ==
    {<<>>,
     <<Log(DT(2024, 1, 6, 1, 0), TRUE, NameB, NameA, 20, 2),
       Log(DT(2024, 1, 5, 23, 0), TRUE, NameA, NameA, 10, 1),
       Log(DT(2024, 1, 7, 10, 0), TRUE, NameA, NameB, 30, 3),
       Log(DT(2024, 1, 8, 9, 0), TRUE, NameB, NameB, 40, 4),
       Log(DT(2024, 1, 20, 10, 0), TRUE, NameA, NameA, 50, 5),
       Log(DT(2024, 2, 3, 10, 0), TRUE, NameA, NameB, 60, 6)>>,
     <<Log(DT(2024, 1, 6, 1, 0), FALSE, NameA, NameA, 20, 2),
       Log(DT(2024, 1, 6, 14, 0), TRUE, NameA, NameA, 30, 3),
       Log(DT(2024, 1, 6, 14, 30), TRUE, NameB, NameA, 5, 1),
       Log(DT(2024, 1, 7, 10, 0), TRUE, NameB, NameB, 40, 4)>>}

InitSeries ==
    /\ now = 0
    /\ storeUp = TRUE
    /\ mem = 0
    /\ store \in SeriesStores
    /\ alternatives = <<>>
    /\ pricing = <<>>
    /\ caches = EmptyCaches
    /\ resp = NoResp
    /\ served = 0
    /\ inflight = <<>>
    /\ sdk = SdkIdle

\* get_timeseries_data() for one request
GetTimeseriesData(req) ==
    /\ resp.kind = "none"
    /\ req.start_date.t <= req.end_date.t
    /\ resp' = [req |-> req,
                kind |-> "series",
                key |-> <<>>,
                ttl |-> NotComputed,
                at |-> now,
                status |-> 200,
                hit |-> FALSE,
                queries |-> 1,
                body |-> [data |-> TimeseriesData(store, req, storeUp, now)]]
    /\ UNCHANGED <<now, storeUp, mem, store, alternatives, pricing, caches, served,
                    inflight, sdk>>

NextSeries ==
    \E sd \in SeriesDays, ed \in SeriesDays, ms \in {<<>>, <<NameA>>},
       interval \in Intervals :
        GetTimeseriesData(Req(Iso(sd), Iso(ed), ms, <<>>, <<>>, interval))

SpecSeries == InitSeries /\ [][NextSeries]_vars

-----------------------------------------------------------------------------
(* Properties of the time series *)

\* the points of the last time series and the rows it was asked about
Series == resp.body.data

SeriesInterval == resp.req.granularity

\* C11: a time series over an empty filtered event set is one point of value 0
SeriesNeverEmpty ==
    (resp.kind = "series" /\ GetTokenLogs(store, resp.req) = <<>>) =>
        (Len(Series) = 1 /\ Series[1].value = 0)

\* the instants of the rows a point of the last time series adds up
PointInstants(p) ==
    {r.timestamp : r \in {x \in Range(SeriesLogs(store, resp.req)) :
                              ExtractDateKey(x, SeriesInterval) = p.display_key}}

\* the start of the period a point stands for: its earliest row
FirstInstant(p) == CHOOSE t \in PointInstants(p) : \A u \in PointInstants(p) : t <= u

\* every row the last time series groups has a timestamp that parses
AllParse == \A r \in Range(SeriesLogs(store, resp.req)) : r.parses

\* C12: the points of a trend or time series are in ascending chronological
\* order of their periods, whether sorted by bucket key or by the sort key
\* rebuilt from the label
SeriesChronological ==
    /\ (resp.kind = "trend" /\ ~resp.body.error) =>
           \A i \in 1..(Len(resp.body.metrics) - 1) :
               KeyLess(resp.body.metrics[i].period, resp.body.metrics[i + 1].period)
    /\ (resp.kind = "series" /\ AllParse /\ Len(Series) > 1) =>
           \A i \in 1..(Len(Series) - 1) :
               FirstInstant(Series[i]) < FirstInstant(Series[i + 1])

-----------------------------------------------------------------------------
(* Properties of bucket generation *)

\* the first instant of the unit a bucket key names
KeyStart(k) == DT(k[1], k[2], k[3], k[4], 0)

\* C13: with granularity month or year the cursor advances by calendar months
\* or years from any start instant: bucket generation completes without
\* error and every bucket is followed by the bucket of the next month or year
BucketAdvanceCalendar ==
    (resp.kind = "trend" /\ RespFilter.time_granularity \in {"month", "year"}) =>
        /\ ~resp.body.error
        /\ \A i \in 1..(Len(resp.body.metrics) - 1) :
               resp.body.metrics[i + 1].period =
                   BucketKey(NextUnitStart(KeyStart(resp.body.metrics[i].period),
                                           RespFilter.time_granularity),
                             RespFilter.time_granularity)

-----------------------------------------------------------------------------
(* Properties of the routes when the store fails *)

\* the request carries no malformed date: parse_filters has nothing to reject
ValidFilter(req) == req.start_date.k # "bad" /\ req.end_date.k # "bad"

\* the empty result of the documented shape, per operation
EmptyResult(r) ==
    IF r.kind = "summary"
    THEN /\ r.body.total_spend = 0
         /\ r.body.total_requests = 0
         /\ r.body.provider_breakdown = EmptyMap
         /\ r.body.model_breakdown = EmptyMap
         /\ r.body.endpoint_breakdown = EmptyMap
    ELSE IF r.kind = "trend" THEN r.body.metrics = <<>>
    ELSE /\ r.body.recommendations = <<>>
         /\ r.body.total_potential_savings = 0

\* C14: a request with a valid filter is answered with a result, never an
\* error; when the store is down the result is the cached one or the empty
\* result of the operation's shape
StoreFailureContained ==
    [][(Handled /\ ValidFilter(resp'.req)) =>
           /\ resp'.status = 200
           /\ ~storeUp => (resp'.hit \/ EmptyResult(resp'))]_vars

-----------------------------------------------------------------------------
(* Filter normalisation on its own *)

\* " A", "A " and "  ": values with whitespace around them, or nothing else
PaddedA == <<Blank>> \o NameA

ATrailing == NameA \o <<Blank>>

Blanks == <<Blank, Blank>>

\* the values given under a singular and under a plural parameter name
FilterLists ==
    {<<<<>>, <<>>>>,
     <<<<NameA>>, <<NameA>>>>,
     <<<<PaddedA, NameB>>, <<NameB, ATrailing>>>>,
     <<<<Blanks, NameB>>, <<<<>>, NameA>>>>,
     <<<<NameB, NameA, NameB>>, <<>>>>}

\* the pairs the endpoint and provider parameters are drawn from
FewFilterLists ==
    {<<<<>>, <<>>>>, <<<<PaddedA, NameB>>, <<NameB, ATrailing>>>>}

FilterDates == {NoDate, BadDate, Iso(CacheStart), Iso(CacheEnd)}

FilterGranularities ==
    {"none", "hour", "day", "week", "month", "year", "DAY", "Week", "invalid"}

InitFilter ==
    /\ now = 0
    /\ storeUp \in BOOLEAN
    /\ mem = 0
    /\ store \in {<<>>, CacheStore}
    /\ alternatives = <<>>
    /\ pricing = <<>>
    /\ caches = EmptyCaches
    /\ resp = NoResp
    /\ served = 0
    /\ inflight = <<>>
    /\ sdk = SdkIdle

\* parse_filters() for one request
ParseFiltersCall(req) ==
    LET f == ParseFilters(req, store, storeUp, now)
    IN  /\ resp.kind = "none"
        /\ resp' = [req |-> req,
                    kind |-> "filters",
                    key |-> <<>>,
                    ttl |-> NotComputed,
                    at |-> now,
                    status |-> IF f.ok THEN 200 ELSE 500,
                    hit |-> FALSE,
                    queries |-> ParseProbes(req, storeUp),
                    body |-> f]
        /\ UNCHANGED <<now, storeUp, mem, store, alternatives, pricing, caches, served,
                    inflight, sdk>>

NextFilter ==
    \E sd \in FilterDates, ed \in FilterDates, g \in FilterGranularities,
       ms \in FilterLists, es \in FewFilterLists, ps \in FewFilterLists :
        ParseFiltersCall([start_date |-> sd,
                          end_date |-> ed,
                          models |-> ms[2],
                          endpoints |-> es[2],
                          providers |-> ps[2],
                          granularity |-> g,
                          model |-> ms[1],
                          endpoint |-> es[1],
                          provider |-> ps[1]])

SpecFilter == InitFilter /\ [][NextFilter]_vars

-----------------------------------------------------------------------------
(* Properties of filter normalisation *)

\* parse_filters was called and returned a FilterParams
Parsed == resp.kind = "filters" /\ resp.body.ok

-----------------------------------------------------------------------------
(* The pipeline with dates that do not parse *)

DateRequests ==
    {Req(Iso(CacheStart), Iso(CacheEnd), <<>>, <<>>, <<>>, "day"),
     Req(BadDate, Iso(CacheEnd), <<>>, <<>>, <<>>, "day"),
     Req(NoDate, BadDate, <<>>, <<>>, <<>>, "none"),
     Req(BadDate, BadDate, <<NameA>>, <<>>, <<>>, "day")}

NextDates ==
    \/ \E req \in DateRequests, m \in MemLevels : GetMetricsSummary(req, m)
    \/ \E req \in DateRequests, m \in MemLevels : GetMetricsTrend(req, m)
    \/ \E req \in DateRequests, m \in MemLevels : GetRecommendations(req, m)
    \/ Tick

SpecDates == Init /\ [][NextDates]_vars

\* C16: a request with a start or end date that is not an ISO date is answered
\* with an error, without any query to the store, without a computed result
\* and without a new entry in any cache
InvalidDateRejected ==
    [][(Handled /\ ~ValidFilter(resp'.req)) =>
           /\ resp'.status # 200
           /\ resp'.queries = 0
           /\ resp'.body = <<>>
           /\ ~resp'.hit
           /\ \A k \in Kinds : caches'[k] \in {caches[k], <<>>}]_vars

\* x is v with any number of blanks before and after it
Padded(x, v) ==
    \E a \in 0..Len(x) :
        /\ a + Len(v) <= Len(x)
        /\ SubSeq(x, a + 1, a + Len(v)) = v
        /\ \A i \in (1..a) \cup ((a + Len(v) + 1)..Len(x)) : x[i] = Blank

\* v has a character that is not a blank at both ends
Trimmed(v) == v # <<>> /\ v[1] # Blank /\ v[Len(v)] # Blank

\* the place of the first value of raw that is v once trimmed
FirstSeen(raw, v) == CHOOSE i \in 1..Len(raw) :
    /\ Padded(raw[i], v)
    /\ \A j \in 1..(i - 1) : ~Padded(raw[j], v)

\* out is raw trimmed, without its empty values, every value once, in the
\* order of first occurrence
Normalised(raw, out) ==
    /\ \A j \in 1..Len(out) : Trimmed(out[j])
    /\ \A j \in 1..Len(out) : \E i \in 1..Len(raw) : Padded(raw[i], out[j])
    /\ \A i \in 1..Len(raw) :
           Padded(raw[i], <<>>) \/ \E j \in 1..Len(out) : Padded(raw[i], out[j])
    /\ \A j, k \in 1..Len(out) : j # k => out[j] # out[k]
    /\ \A j, k \in 1..Len(out) : j < k => FirstSeen(raw, out[j]) < FirstSeen(raw, out[k])

\* C17: each list filter is the values given under the singular and under the
\* plural name, trimmed, without the empty ones and without duplicates, in
\* first-seen order
ListsNormalised ==
    Parsed =>
        /\ Normalised(resp.req.model \o resp.req.models, resp.body.models)
        /\ Normalised(resp.req.endpoint \o resp.req.endpoints, resp.body.endpoints)
        /\ Normalised(resp.req.provider \o resp.req.providers, resp.body.providers)

ListsNormalisedWitness ==
    /\ Parsed
    /\ resp.req.model = <<PaddedA, NameB>>
    /\ resp.req.models = <<NameB, ATrailing>>
    /\ resp.body.models = <<NameA, NameB>>
    /\ resp.req.endpoint = <<PaddedA, NameB>>
    /\ resp.body.endpoints = <<NameA, NameB>>

-----------------------------------------------------------------------------
(* Capped lists: model distribution and feature usage *)

Metrics == {"tokens", "cost"}

\* the values of a field, in the order of first appearance (dict keys)
FirstSeenKeys(logs, field) == Dedup([i \in 1..Len(logs) |-> logs[i][field]])

RECURSIVE SumField(_, _)
SumField(l, field) ==
    IF l = <<>> THEN 0 ELSE Head(l)[field] + SumField(Tail(l), field)

\* result.sort(key=lambda x: x['value'], reverse=True): stable, descending
RECURSIVE InsertByValue(_, _)
InsertByValue(x, s) ==
    IF s = <<>> THEN <<x>>
    ELSE IF x.value >= Head(s).value THEN <<x>> \o s
    ELSE <<Head(s)>> \o InsertByValue(x, Tail(s))

RECURSIVE SortByValue(_)
SortByValue(l) ==
    IF l = <<>> THEN <<>>
    ELSE InsertByValue(Head(l), SortByValue(Tail(l)))

\* SupabaseClient.get_model_distribution(): one row for each model, percent in
\* tenths of a percent
ModelRows(logs, metric) ==
    LET names  == FirstSeenKeys(logs, "model")
        of(n)  == SelectSeq(logs, LAMBDA r : r.model = n)
        grand  == IF metric = "tokens" THEN SumField(logs, "total_tokens")
                  ELSE SumField(logs, "total_cost")
        val(n) == IF metric = "tokens" THEN SumField(of(n), "total_tokens")
                  ELSE SumField(of(n), "total_cost")
    IN  SortByValue([i \in 1..Len(names) |->
            [model |-> names[i],
             value |-> val(names[i]),
             cost |-> SumField(of(names[i]), "total_cost"),
             percent |-> IF grand > 0 THEN RoundDiv(val(names[i]) * 1000, grand) ELSE 0]])

\* max(models.items(), key=count)[0]: the model most rows of the feature
\* name, the first seen among equals
TopModel(logs) ==
    LET names    == FirstSeenKeys(logs, "model")
        count(n) == Len(SelectSeq(logs, LAMBDA r : r.model = n))
        best     == CHOOSE i \in 1..Len(names) :
                        /\ \A j \in 1..Len(names) : count(names[j]) <= count(names[i])
                        /\ \A j \in 1..(i - 1) : count(names[j]) < count(names[i])
    IN  names[best]

\* SupabaseClient.get_feature_distribution(): one row for each endpoint_name;
\* round(total_cost, 2) with costs counted in tenths of a cent
FeatureRows(logs, metric) ==
    LET names == FirstSeenKeys(logs, "endpoint_name")
        of(n) == SelectSeq(logs, LAMBDA r : r.endpoint_name = n)
    IN  SortByValue([i \in 1..Len(names) |->
            [model |-> TopModel(of(names[i])),
             total_tokens |-> SumField(of(names[i]), "total_tokens"),
             value |-> IF metric = "tokens" THEN SumField(of(names[i]), "total_tokens")
                       ELSE SumField(of(names[i]), "total_cost"),
             cost |-> RoundDiv(SumField(of(names[i]), "total_cost"), 10) * 10,
             feature |-> names[i],
             request_count |-> Len(of(names[i]))]])

\* "Adjust date range based on interval": day is the end date alone, week the
\* Monday-to-Sunday week of the end date
AdjustRange(req) ==
    LET monday == req.end_date.t - Weekday(req.end_date.t) * TicksPerDay
    IN  IF req.granularity = "day"
        THEN [req EXCEPT !.start_date = req.end_date]
        ELSE IF req.granularity = "week" /\ req.start_date # req.end_date
        THEN [req EXCEPT !.start_date = Iso(monday),
                         !.end_date = Iso(monday + 6 * TicksPerDay)]
        ELSE req

\* the rows a distribution is computed from; none when the store is down
DistributionLogs(rows, req, up) ==
    IF up THEN GetTokenLogs(rows, AdjustRange(req)) ELSE <<>>

\* models[:limit] for limit >= 0
Take(l, limit) == SubSeq(l, 1, IF limit < Len(l) THEN limit ELSE Len(l))

\* models[limit:] for limit >= 0
Drop(l, limit) == SubSeq(l, limit + 1, Len(l))

\* AnalyticsService.get_model_distribution()
GetModelDistribution(rows, req, metric, limit, up) ==
    LET models       == ModelRows(DistributionLogs(rows, req, up), metric)
        other_models == IF Len(models) > limit THEN Drop(models, limit) ELSE <<>>
    IN  [data |-> Take(models, limit),
         other |-> [value |-> SumField(other_models, "value"),
                    cost |-> SumField(other_models, "cost"),
                    percent |-> SumField(other_models, "percent")]]

\* AnalyticsService.get_feature_usage()
GetFeatureUsage(rows, req, metric, limit, up) ==
    [data |-> Take(FeatureRows(DistributionLogs(rows, req, up), metric), limit)]

-----------------------------------------------------------------------------
(* The capped lists on their own *)

MaxLimit == 2

TopNStores ==
    SeriesStores \cup
    {<<Log(DT(2024, 1, 5, 9, 0), TRUE, NameA, NameC, 10, 14),
       Log(DT(2024, 1, 5, 10, 0), TRUE, NameB, NameA, 30, 25),
       Log(DT(2024, 1, 6, 9, 0), TRUE, NameC, NameB, 20, 8),
       Log(DT(2024, 1, 6, 10, 0), TRUE, NameB, NameC, 5, 3),
       Log(DT(2024, 1, 8, 9, 0), TRUE, NameB, NameC, 5, 35)>>}

InitTopN ==
    /\ now = 0
    /\ storeUp = TRUE
    /\ mem = 0
    /\ store \in TopNStores
    /\ alternatives = <<>>
    /\ pricing = <<>>
    /\ caches = EmptyCaches
    /\ resp = NoResp
    /\ served = 0
    /\ inflight = <<>>
    /\ sdk = SdkIdle

\* the response of a capped list; key holds the metric and the limit asked for
CappedResp(kind, req, metric, limit, result) ==
    [req |-> req,
     kind |-> kind,
     key |-> <<metric, limit>>,
     ttl |-> NotComputed,
     at |-> now,
     status |-> 200,
     hit |-> FALSE,
     queries |-> 1,
     body |-> result]

\* GET /api/analytics/models
ModelDistribution(req, metric, limit) ==
    /\ resp.kind = "none"
    /\ req.start_date.t <= req.end_date.t
    /\ resp' = CappedResp("models", req, metric, limit,
                          GetModelDistribution(store, req, metric, limit, storeUp))
    /\ UNCHANGED <<now, storeUp, mem, store, alternatives, pricing, caches, served,
                    inflight, sdk>>

\* GET /api/analytics/features
FeatureUsage(req, metric, limit) ==
    /\ resp.kind = "none"
    /\ req.start_date.t <= req.end_date.t
    /\ resp' = CappedResp("features", req, metric, limit,
                          GetFeatureUsage(store, req, metric, limit, storeUp))
    /\ UNCHANGED <<now, storeUp, mem, store, alternatives, pricing, caches, served,
                    inflight, sdk>>

NextTopN ==
    \/ \E sd \in SeriesDays, ed \in SeriesDays, ms \in {<<>>, <<NameB>>},
          interval \in {"day", "week", "month"}, metric \in Metrics, limit \in 0..MaxLimit :
           ModelDistribution(Req(Iso(sd), Iso(ed), ms, <<>>, <<>>, interval), metric, limit)
    \/ \E sd \in SeriesDays, ed \in SeriesDays, ms \in {<<>>, <<NameB>>},
          interval \in {"day", "week", "month"}, metric \in Metrics, limit \in 0..MaxLimit :
           FeatureUsage(Req(Iso(sd), Iso(ed), ms, <<>>, <<>>, interval), metric, limit)

SpecTopN == InitTopN /\ [][NextTopN]_vars

-----------------------------------------------------------------------------
(* Properties of the capped lists *)

\* the rows before the cap, for the list the last response answers
UncappedRows ==
    LET logs == DistributionLogs(store, resp.req, storeUp)
    IN  IF resp.kind = "models" THEN ModelRows(logs, resp.key[1])
        ELSE FeatureRows(logs, resp.key[1])

\* the sum of a field over the rows returned and the "other" row, if any
ReturnedSum(field) ==
    SumField(resp.body.data, field) +
    (IF "other" \in DOMAIN resp.body THEN resp.body.other[field] ELSE 0)

\* C18: the rows of a capped list and its "other" row add up, in value and in
\* cost, to the rows before the cap
TopNConserves ==
    resp.kind \in {"models", "features"} =>
        /\ Len(resp.body.data) <= resp.key[2]
        /\ ReturnedSum("value") = SumField(UncappedRows, "value")
        /\ ReturnedSum("cost") = SumField(UncappedRows, "cost")

-----------------------------------------------------------------------------
(* Labels that do not parse *)

\* the rows the last time series grouped
Grouped == SeriesLogs(store, resp.req)

\* C19: the point of the rows whose label does not parse is the last point of
\* the series, and every other row still has its point
UnparsedSortedLast ==
    (resp.kind = "series" /\ \E i \in 1..Len(Grouped) : ~Grouped[i].parses) =>
        /\ Series # <<>>
        /\ Series[Len(Series)].display_key = UnknownDate
        /\ \A i \in 1..Len(Grouped) :
               \E j \in 1..Len(Series) :
                   Series[j].display_key = ExtractDateKey(Grouped[i], SeriesInterval)

-----------------------------------------------------------------------------
(* Memory pressure *)

\* the entries of a cache
Entries(c) == {c[i] : i \in 1..Len(c)}

\* C20: after a request with memory above 70 percent the three caches are
\* empty; at 70 percent or below the cleanup removes no entry, the one of the
\* request included; and the request after a clearing is not served from a
\* cache but computed from the store
MemoryEviction ==
    [][Handled =>
           /\ mem' > SoftWatermark => caches' = EmptyCaches
           /\ mem' > HardWatermark => caches' = EmptyCaches
           /\ mem' <= SoftWatermark =>
                  /\ \A k \in Kinds : Entries(caches[k]) \subseteq Entries(caches'[k])
                  /\ resp'.status = 200 =>
                         \E e \in Entries(caches'[resp'.kind]) :
                             e.key = resp'.key /\ e.ttl = resp'.ttl
           /\ (mem > SoftWatermark /\ resp'.status = 200) =>
                  /\ ~resp'.hit
                  /\ resp'.body = Internal(resp'.kind,
                                           ParseFilters(resp'.req, store, storeUp, now),
                                           store, alternatives, pricing, storeUp)]_vars

\* a second request, answered after the first one's cleanup emptied the caches,
\* and itself followed by a cleanup above the hard watermark
MemoryEvictionWitness ==
    /\ served = 2
    /\ mem > HardWatermark
    /\ resp.status = 200
    /\ ~resp.hit
    /\ caches = EmptyCaches

-----------------------------------------------------------------------------
(* The three lru_cache instances on their own *)

MaxKey == 35

\* the keys of the entries of a cache, least recently used first
Keys(c) == [i \in 1..Len(c) |-> c[i].key[1]]

Ascending(c) == \A i \in 1..(Len(c) - 1) : Keys(c)[i] < Keys(c)[i + 1]

\* the key no call on the cache has used yet
FreshKey(c) ==
    IF c = <<>> THEN 1
    ELSE 1 + CHOOSE m \in Range(Keys(c)) : \A n \in Range(Keys(c)) : n <= m

\* the cache keys a call is made with: a new one, or the one of the least
\* recently used entry, of the next one, or of the most recently used one
CallKeys(c) ==
    {<<FreshKey(c)>>} \cup
    (IF Ascending(c) THEN {c[i].key : i \in {1, 2, Len(c)} \cap (1..Len(c))} ELSE {})

InitLru ==
    /\ now = 0
    /\ storeUp = TRUE
    /\ mem = 0
    /\ store = <<>>
    /\ alternatives = <<>>
    /\ pricing = <<>>
    /\ caches = EmptyCaches
    /\ resp = NoResp
    /\ served = 0
    /\ inflight = <<>>
    /\ sdk = SdkIdle

\* get_cached_metrics_summary / _trend / _recommendations (cache_key, ttl_hash):
\* the wrapped function runs on a miss only; its result is known by the key
CachedCall(kind, key) ==
    LET c   == caches[kind]
        ttl == TtlHash(now)
        i   == CacheIndex(c, key, ttl)
    IN  /\ key[1] <= MaxKey
        /\ \A k \in Kinds \ {kind} : Len(caches[k]) > 1 => Len(c) = 0
        /\ caches' = [caches EXCEPT ![kind] =
                          IF i > 0 THEN CacheTouch(c, i) ELSE CacheInsert(c, key, ttl, key)]
        /\ resp' = [req |-> NoReq,
                    kind |-> kind,
                    key |-> key,
                    ttl |-> ttl,
                    at |-> now,
                    status |-> 200,
                    hit |-> i > 0,
                    queries |-> IF i > 0 THEN 0 ELSE 1,
                    body |-> IF i > 0 THEN c[i].value ELSE key]
        /\ UNCHANGED <<now, storeUp, mem, store, alternatives, pricing, served,
                    inflight, sdk>>

NextLru == \E kind \in Kinds : \E key \in CallKeys(caches[kind]) : CachedCall(kind, key)

SpecLru == InitLru /\ [][NextLru]_vars

-----------------------------------------------------------------------------
(* Properties of the lru_cache instances *)

\* C21: a cache never holds more than 32 entries; a miss on a full cache drops
\* the least recently used entry and no other; the entry a call used is the
\* most recent one; and a call on one cache leaves the other two as they were
LruBounded ==
    [][LET kind == resp'.kind
           c    == caches[kind]
           d    == caches'[kind]
       IN  /\ \A k \in Kinds : Len(caches'[k]) <= LruMaxsize
           /\ \A k \in Kinds \ {kind} : caches'[k] = caches[k]
           /\ d # <<>> /\ d[Len(d)].key = resp'.key
           /\ resp'.hit => Entries(d) = Entries(c)
           /\ (~resp'.hit /\ Len(c) < LruMaxsize) => SubSeq(d, 1, Len(c)) = c
           /\ (~resp'.hit /\ Len(c) = LruMaxsize) =>
                  /\ Len(d) = LruMaxsize
                  /\ Entries(c) \ Entries(d) = {c[1]}
                  /\ SubSeq(d, 1, Len(d) - 1) = Tail(c)]_vars

\* a full cache after an eviction that spared the oldest key because a call
\* had used it, next to another cache that holds an entry
LruBoundedWitness ==
    \E kind \in Kinds :
        /\ resp.kind = kind
        /\ ~resp.hit
        /\ Len(caches[kind]) = LruMaxsize
        /\ resp.key[1] = LruMaxsize + 1
        /\ \E i \in 1..Len(caches[kind]) : caches[kind][i].key = <<1>>
        /\ ~\E i \in 1..Len(caches[kind]) : caches[kind][i].key = <<2>>
        /\ \E k \in Kinds \ {kind} : caches[k] # <<>>

-----------------------------------------------------------------------------
(* Ingest: POST /api/log *)

\* A value of the JSON payload: absent, null, an integer, a string that int()
\* reads as v, a string that int() cannot read, or a name
Absent == [k |-> "absent", v |-> 0]

Null == [k |-> "null", v |-> 0]

IntVal(n) == [k |-> "int", v |-> n]

NumStr(n) == [k |-> "numstr", v |-> n]

BadStr == [k |-> "badstr", v |-> 0]

Name(s) == [k |-> "name", v |-> s]

\* int(x): a number, ValueError or TypeError
RaisesValueError(x) == x.k \in {"badstr", "name"}

RaisesTypeError(x) == x.k = "null"

ProviderUnknown == <<9>>

\* 'default'
DefaultEndpoint == <<5>>

\* "Simple heuristic to determine provider from model name": NameA stands for
\* a name with 'gpt' in it, NameB for one with 'claude'
ProviderOfModel(m) ==
    IF m = NameA THEN Provider1 ELSE IF m = NameB THEN Provider2 ELSE ProviderUnknown

RequiredFields == <<"model", "prompt_tokens", "completion_tokens", "total_tokens", "latency_ms">>

IntFields == <<"prompt_tokens", "completion_tokens", "total_tokens", "latency_ms">>

NoCleaned == <<>>

\* the total is kept as sent
KeepTotal(p) == p.total_tokens.v

\* "cleaned_data['total_tokens'] = prompt_tokens + completion_tokens" when the
\* total sent is another number
RepairedTotal(p) ==
    IF p.total_tokens.v # p.prompt_tokens.v + p.completion_tokens.v
    THEN p.prompt_tokens.v + p.completion_tokens.v
    ELSE p.total_tokens.v

\* validate_log_payload(): (is_valid, error_message, cleaned_data), or raised
\* when int() raises the TypeError no except clause catches
ValidateLogPayload(p) ==
    LET missing == {i \in 1..Len(RequiredFields) : p[RequiredFields[i]].k = "absent"}
        failing == {i \in 1..Len(IntFields) :
                       RaisesValueError(p[IntFields[i]]) \/ RaisesTypeError(p[IntFields[i]])}
        first   == CHOOSE i \in failing : \A j \in failing : i <= j
        model   == IF p.model.k = "name" THEN p.model.v ELSE <<>>
    IN  IF missing # {}
        THEN [ok |-> FALSE,
              raised |-> FALSE,
              error |-> "Missing required field",
              cleaned |-> NoCleaned]
        ELSE IF failing # {} /\ RaisesTypeError(p[IntFields[first]])
        THEN [ok |-> FALSE,
              raised |-> TRUE,
              error |-> "TypeError",
              cleaned |-> NoCleaned]
        ELSE IF failing # {}
        THEN [ok |-> FALSE,
              raised |-> FALSE,
              error |-> "Type validation error",
              cleaned |-> NoCleaned]
        ELSE IF p.prompt_tokens.v < 0 \/ p.completion_tokens.v < 0
        THEN [ok |-> FALSE,
              raised |-> FALSE,
              error |-> "Token counts cannot be negative",
              cleaned |-> NoCleaned]
        ELSE [ok |-> TRUE,
              raised |-> FALSE,
              error |-> "",
              cleaned |->
                  [model |-> model,
                   endpoint_name |-> IF p.endpoint_name.k = "absent" THEN DefaultEndpoint
                                     ELSE p.endpoint_name.v,
                   api_provider |-> IF p.api_provider.k = "absent"
                                    THEN ProviderOfModel(model)
                                    ELSE p.api_provider.v,
                   total_tokens |-> RepairedTotal(p),
                   prompt_tokens |-> p.prompt_tokens.v,
                   completion_tokens |-> p.completion_tokens.v,
                   latency_ms |-> p.latency_ms.v]]

\* the first active row of the table, whatever its model
AnyModelPricing(prices, m) == IF prices = <<>> THEN <<>> ELSE <<prices[1]>>

\* SupabaseClient.get_model_pricing(): the first active row of the model
GetModelPricing(prices, m) ==
    LET at == {i \in 1..Len(prices) : prices[i].model = m}
    IN  IF at = {} THEN <<>> ELSE <<prices[CHOOSE i \in at : \A j \in at : i <= j]>>

\* PricingService.calculate_cost(): round(tokens / 1000 * price, 6), prices in
\* millionths per 1000 tokens
CalculateCost(prompt, completion, price) ==
    [total_cost |-> RoundDiv(prompt * price.input_price + completion * price.output_price, 1000),
     input_cost |-> RoundDiv(prompt * price.input_price, 1000),
     output_cost |-> RoundDiv(completion * price.output_price, 1000)]

\* {**cleaned_data, **cost_data}; the table gives a row without timestamp the
\* time of the insert
LogData(cleaned, cost, ts, n) ==
    [timestamp |-> IF ts.k = "absent" THEN UtcNow(n) ELSE ts.v,
     model |-> cleaned.model,
     endpoint_name |-> cleaned.endpoint_name,
     api_provider |-> cleaned.api_provider,
     total_tokens |-> cleaned.total_tokens,
     total_cost |-> cost.total_cost,
     prompt_tokens |-> cleaned.prompt_tokens,
     completion_tokens |-> cleaned.completion_tokens,
     latency_ms |-> cleaned.latency_ms,
     input_cost |-> cost.input_cost,
     output_cost |-> cost.output_cost]

\* log_token_usage(): the status and the table it leaves
LogResult(data, rows, prices, up, n) ==
    LET v     == ValidateLogPayload(data.body)
        price == GetModelPricing(prices, v.cleaned.model)
        row   == LogData(v.cleaned,
                         CalculateCost(v.cleaned.prompt_tokens,
                                       v.cleaned.completion_tokens, price[1]),
                         data.body.timestamp, n)
    IN  IF ~data.given THEN [rows |-> rows, status |-> 400, queries |-> 0]
        ELSE IF v.raised THEN [rows |-> rows, status |-> 500, queries |-> 0]
        ELSE IF ~v.ok THEN [rows |-> rows, status |-> 400, queries |-> 0]
        ELSE IF ~up THEN [rows |-> rows, status |-> 500, queries |-> 1]
        ELSE IF price = <<>> THEN [rows |-> rows, status |-> 404, queries |-> 1]
        ELSE [rows |-> Append(rows, row), status |-> 201, queries |-> 2]

-----------------------------------------------------------------------------
(* The log endpoint on its own *)

LogTime == DT(2024, 1, 2, 12, 0)

\* request.get_json(): nothing, or a payload
NoData == [body |-> <<>>, given |-> FALSE]

Payloads ==
    [model : {Absent, Name(NameA), Name(NameC)},
     prompt_tokens : {Absent, Null, BadStr, IntVal(-1), IntVal(0), IntVal(10), NumStr(10)},
     completion_tokens : {BadStr, IntVal(-1), IntVal(5)},
     total_tokens : {Absent, Null, BadStr, IntVal(7), IntVal(15), NumStr(5)},
     latency_ms : {Absent, IntVal(100)},
     endpoint_name : {Absent, Name(NameB)},
     api_provider : {Absent},
     timestamp : {Absent, [k |-> "iso", v |-> LogTime]}]

InitLog ==
    /\ now = 0
    /\ storeUp \in BOOLEAN
    /\ mem = 0
    /\ store \in {<<>>, CacheStore}
    /\ alternatives = <<>>
    /\ pricing = CachePricing
    /\ caches = EmptyCaches
    /\ resp = NoResp
    /\ served = 0
    /\ inflight = <<>>
    /\ sdk = SdkIdle

\* POST /api/log
LogTokenUsage(data) ==
    LET r == LogResult(data, store, pricing, storeUp, now)
    IN  /\ resp.kind = "none"
        /\ store' = r.rows
        /\ resp' = [req |-> data,
                    kind |-> "log",
                    key |-> <<>>,
                    ttl |-> NotComputed,
                    at |-> now,
                    status |-> r.status,
                    hit |-> FALSE,
                    queries |-> r.queries,
                    body |-> IF r.status = 201 THEN <<r.rows[Len(r.rows)]>> ELSE <<>>]
        /\ UNCHANGED <<now, storeUp, mem, alternatives, pricing, caches, served,
                    inflight, sdk>>

NextLog ==
    \/ LogTokenUsage(NoData)
    \/ \E p \in Payloads : LogTokenUsage([body |-> p, given |-> TRUE])

SpecLog == InitLog /\ [][NextLog]_vars

-----------------------------------------------------------------------------
(* Properties of the log endpoint *)

Logged == resp.kind = "log" /\ resp.req.given

Sent == resp.req.body

\* every count of the payload is a whole number or a string that spells one
CountsGiven ==
    \A i \in 1..Len(IntFields) : Sent[IntFields[i]].k \in {"int", "numstr"}

\* the payload is right but for its total
RightButTotal ==
    /\ Sent.model.k = "name"
    /\ CountsGiven
    /\ Sent.prompt_tokens.v >= 0
    /\ Sent.completion_tokens.v >= 0

\* C22: a payload with a total that is not the sum of its two counts is not
\* refused for it, and a row that is accepted holds the sum as its total, with
\* counts that are not negative
IngestRepairs ==
    Logged =>
        /\ RightButTotal => resp.status \notin {400}
        /\ resp.status = 201 =>
               /\ resp.body[1].total_tokens =
                      resp.body[1].prompt_tokens + resp.body[1].completion_tokens
               /\ resp.body[1].prompt_tokens = Sent.prompt_tokens.v
               /\ resp.body[1].completion_tokens = Sent.completion_tokens.v
               /\ resp.body[1].prompt_tokens >= 0
               /\ resp.body[1].completion_tokens >= 0

IngestRepairsWitness ==
    /\ Logged
    /\ resp.status = 201
    /\ Sent.total_tokens.v # Sent.prompt_tokens.v + Sent.completion_tokens.v
    /\ store # <<>>
    /\ store[Len(store)].total_tokens = 15

\* C30: a request adds at most one row, and only a payload that is valid and
\* whose model has active pricing adds one; after a 400 or a 404 the table is
\* as it was
InsertOnlyValidPriced ==
    [][resp'.kind = "log" =>
           /\ store' = store \/ (Len(store') = Len(store) + 1 /\ SubSeq(store', 1, Len(store)) = store)
           /\ store' # store =>
                  /\ resp'.req.given
                  /\ resp'.status = 201
                  /\ resp'.req.body.model.k = "name"
                  /\ \A i \in 1..Len(IntFields) :
                         resp'.req.body[IntFields[i]].k \in {"int", "numstr"}
                  /\ resp'.req.body.prompt_tokens.v >= 0
                  /\ resp'.req.body.completion_tokens.v >= 0
                  /\ \E i \in 1..Len(pricing) :
                         /\ pricing[i].model = resp'.req.body.model.v
                         /\ store'[Len(store')].model = pricing[i].model
           /\ resp'.status \in {400, 404} => store' = store]_vars

\* a valid payload for a model without pricing was answered 404, next to rows
\* that were in the table before
InsertOnlyValidPricedWitness ==
    /\ Logged
    /\ RightButTotal
    /\ Sent.model.v = NameC
    /\ resp.status = 404
    /\ store = CacheStore

-----------------------------------------------------------------------------
(* The SDK: configuration, track_usage, tracked_completion *)

\* an optional argument: None, or a value
None == [k |-> "none", v |-> 0]

Some(x) == [k |-> "some", v |-> x]

EnvUrl == "https://env.tokenoptimizer.com/api/log"

SetUrl == "https://new-api.tokenoptimizer.com/api/log"

\* os.environ: "" is a variable that is not set
Envs == [api_url : {"", EnvUrl}, debug : {"", "true", "TRUE", "no"}]

\* str.lower() on the values TOKENOPTIMIZER_DEBUG takes here
LowerEnv(x) == IF x = "TRUE" THEN "true" ELSE x

\* the module body of config.py: the defaults, then the environment
ImportConfig(env) ==
    LET c == IF env.api_url # "" THEN [DefaultConfig EXCEPT !.api_url = env.api_url]
             ELSE DefaultConfig
    IN  IF env.debug # ""
        THEN [c EXCEPT !.debug = LowerEnv(env.debug) \in {"true", "1", "yes"}]
        ELSE c

\* set_config(): the keys whose argument is not None
SetConfigOf(c, api_url, timeout, debug, disable_logging) ==
    [api_url |-> IF api_url.k # "none" THEN api_url.v ELSE c.api_url,
     timeout |-> IF timeout.k # "none" THEN timeout.v ELSE c.timeout,
     debug |-> IF debug.k # "none" THEN debug.v ELSE c.debug,
     disable_logging |-> IF disable_logging.k # "none" THEN disable_logging.v
                         ELSE c.disable_logging]

\* reset_config(): _DEFAULT_CONFIG.copy()
ResetConfigOf == DefaultConfig

\* validate_input() without its comparison of the total with the sum
InputInvalidButSum(model, prompt, completion, total) ==
    \/ model.k # "name" \/ model.v = <<>>
    \/ prompt.k # "int" \/ prompt.v < 0
    \/ completion.k # "int" \/ completion.v < 0
    \/ total.k # "int" \/ total.v < 0

\* validate_input(): TRUE when it raises ValueError
InputInvalid(model, prompt, completion, total) ==
    \/ model.k # "name" \/ model.v = <<>>
    \/ prompt.k # "int" \/ prompt.v < 0
    \/ completion.k # "int" \/ completion.v < 0
    \/ total.k # "int" \/ total.v < 0
    \/ total.v # prompt.v + completion.v

\* "Infer API provider if not provided": NameA stands for a name that starts
\* with gpt, NameB for one that starts with claude
SdkProviderOf(m) ==
    IF m = NameA THEN Provider1 ELSE IF m = NameB THEN Provider2 ELSE ProviderUnknown

\* What requests.post does: a response with a status code, with or without
\* a "log" in its JSON, or an exception
HttpOutcomes ==
    {[log |-> TRUE, code |-> 201, fails |-> FALSE],
     [log |-> FALSE, code |-> 201, fails |-> FALSE],
     [log |-> FALSE, code |-> 400, fails |-> FALSE],
     [log |-> FALSE, code |-> 500, fails |-> FALSE],
     [log |-> FALSE, code |-> 0, fails |-> TRUE]}

Raised(e) == [outcome |-> e, returned |-> <<>>]

Returned(x) == [outcome |-> "returned", returned |-> x]

\* track_usage(): the calls it makes and what it returns or raises
TrackUsageOf(c, model, prompt, completion, total, provider, http) ==
    LET payload == [model |-> model.v,
                    api_provider |-> IF provider.k = "none" THEN SdkProviderOf(model.v)
                                     ELSE provider.v,
                    total_tokens |-> total.v,
                    prompt_tokens |-> prompt.v,
                    completion_tokens |-> completion.v]
    IN  IF InputInvalid(model, prompt, completion, total)
        THEN [calls |-> <<>>, result |-> Raised("ValueError")]
        ELSE [calls |-> <<[to |-> "api", url |-> c.api_url, sent |-> payload]>>,
              result |->
                  IF ~http.fails /\ http.code = 201 /\ http.log
                  THEN Returned([log |-> payload, success |-> TRUE])
                  ELSE Returned([error |-> http, success |-> FALSE])]

Adapters == {"openai", "mistral"}

\* extract_usage(): the three counts, or the exception it raises ("" for
\* none). A count the response does not carry is Absent; text is the number
\* of words of the answer
ExtractUsage(adapter, response) ==
    LET u == response.usage
        p == IF u.prompt_tokens.k = "absent" THEN IntVal(0) ELSE u.prompt_tokens
        c == IF u.completion_tokens.k = "absent" THEN IntVal(0) ELSE u.completion_tokens
        estimate == IntVal((13 * response.text) \div 10)
    IN  IF adapter = "openai"
        THEN IF ~response.has_usage THEN [usage |-> <<>>, raises |-> "ValueError"]
             ELSE IF \E x \in {u.prompt_tokens, u.completion_tokens, u.total_tokens} :
                         x.k = "absent"
             THEN [usage |-> <<>>, raises |-> "ValueError"]
             ELSE [usage |-> u, raises |-> ""]
        ELSE IF ~response.has_usage
        THEN [usage |-> [total_tokens |-> estimate,
                         prompt_tokens |-> IntVal(0),
                         completion_tokens |-> estimate],
              raises |-> ""]
        ELSE IF u.total_tokens.k = "absent" /\ (p.k # "int" \/ c.k # "int")
        THEN [usage |-> <<>>, raises |-> "TypeError"]
        ELSE [usage |-> [total_tokens |-> IF u.total_tokens.k = "absent"
                                          THEN IntVal(p.v + c.v) ELSE u.total_tokens,
                         prompt_tokens |-> p,
                         completion_tokens |-> c],
              raises |-> ""]

\* tracked_completion() with a provider client: adapter.complete, then
\* extract_usage, then track_usage, then "return response"
TrackedCompletionOf(c, adapter, model, response, http) ==
    LET call  == [to |-> "provider", url |-> adapter, sent |-> model.v]
        x     == ExtractUsage(adapter, response)
        track == TrackUsageOf(c, model, x.usage.prompt_tokens, x.usage.completion_tokens,
                              x.usage.total_tokens, Some(Provider1), http)
    IN  IF x.raises # "" THEN [calls |-> <<call>>, result |-> Raised(x.raises)]
        ELSE IF track.result.outcome # "returned"
        THEN [calls |-> <<call>> \o track.calls, result |-> track.result]
        ELSE [calls |-> <<call>> \o track.calls, result |-> Returned(response)]

-----------------------------------------------------------------------------
(* The SDK on its own *)

InitSdk ==
    /\ now = 0
    /\ storeUp = TRUE
    /\ mem = 0
    /\ store = <<>>
    /\ alternatives = <<>>
    /\ pricing = <<>>
    /\ caches = EmptyCaches
    /\ resp = NoResp
    /\ served = 0
    /\ inflight = <<>>
    /\ \E env \in Envs :
           sdk = [config |-> ImportConfig(env),
                  calls |-> <<>>,
                  result |-> NoResult,
                  op |-> [name |-> "import", args |-> env]]

Others == <<now, storeUp, mem, store, alternatives, pricing, caches, resp, served, inflight>>

\* set_config(api_url, timeout, debug, disable_logging)
SetConfig(api_url, timeout, debug, disable_logging) ==
    LET c == SetConfigOf(sdk.config, api_url, timeout, debug, disable_logging)
    IN  /\ sdk' = [config |-> c,
                   calls |-> <<>>,
                   result |-> Returned(c),
                   op |-> [name |-> "set_config",
                           args |-> <<api_url, timeout, debug, disable_logging>>]]
        /\ UNCHANGED Others

\* reset_config()
ResetConfig ==
    /\ sdk' = [config |-> ResetConfigOf,
               calls |-> <<>>,
               result |-> Returned(ResetConfigOf),
               op |-> [name |-> "reset_config", args |-> <<>>]]
    /\ UNCHANGED Others

\* get_config()
GetConfig ==
    /\ sdk' = [sdk EXCEPT !.calls = <<>>,
                          !.result = Returned(sdk.config),
                          !.op = [name |-> "get_config", args |-> <<>>]]
    /\ UNCHANGED Others

\* track_usage(model, prompt_tokens, completion_tokens, total_tokens, ...)
TrackUsage(model, prompt, completion, total, http) ==
    LET r == TrackUsageOf(sdk.config, model, prompt, completion, total, None, http)
    IN  /\ sdk' = [config |-> sdk.config,
                   calls |-> r.calls,
                   result |-> r.result,
                   op |-> [name |-> "track_usage",
                           args |-> <<model, prompt, completion, total, http>>]]
        /\ UNCHANGED Others

\* tracked_completion(model, messages, provider_client=...)
TrackedCompletion(adapter, model, response, http) ==
    LET r == TrackedCompletionOf(sdk.config, adapter, model, response, http)
    IN  /\ sdk' = [config |-> sdk.config,
                   calls |-> r.calls,
                   result |-> r.result,
                   op |-> [name |-> "tracked_completion",
                           args |-> <<adapter, model, response, http>>]]
        /\ UNCHANGED Others

SdkModels == {Null, Name(<<>>), Name(NameA), Name(NameC)}

SdkCounts == {NumStr(5), IntVal(-1), IntVal(10)}

SdkTotals == {IntVal(15), IntVal(16)}

\* what a provider answers: no usage at all, or usage with its counts
ProviderResponses ==
    {[usage |-> <<>>, text |-> 3, has_usage |-> FALSE]} \cup
    [has_usage : {TRUE},
     usage : [total_tokens : {Absent, IntVal(15), IntVal(16)},
              prompt_tokens : {Absent, IntVal(10)},
              completion_tokens : {IntVal(5), Null}],
     text : {3}]

NextSdk ==
    \/ \E a \in {None, Some(SetUrl)}, t \in {None, Some(10)},
          d \in {None, Some(TRUE)}, l \in {None, Some(TRUE)} : SetConfig(a, t, d, l)
    \/ ResetConfig
    \/ GetConfig
    \/ \E model \in SdkModels, p \in SdkCounts, t \in SdkTotals, http \in HttpOutcomes :
           TrackUsage(model, p, IntVal(5), t, http)
    \/ \E adapter \in Adapters, response \in ProviderResponses, http \in HttpOutcomes :
           TrackedCompletion(adapter, Name(NameA), response, http)

SpecSdk == InitSdk /\ [][NextSdk]_vars

-----------------------------------------------------------------------------
(* Properties of the SDK *)

\* the arguments of the SDK call that was made last
SdkArgs == sdk.op.args

\* a count as track_usage wants it: an int that is not negative
GoodCount(x) == x.k = "int" /\ x.v >= 0

\* C23: track_usage with an empty model, a count that is not a non-negative
\* int, or a total that is not prompt + completion raises ValueError and has
\* sent no HTTP request; with valid inputs it does not raise and posts once
\* to the configured URL: a 201 response carrying the log gives success True
\* with that log, every other status code and every exception while the
\* request or its answer is handled gives success False with an error
TrackUsageContract ==
    sdk.op.name = "track_usage" =>
        LET model == SdkArgs[1]
            prompt == SdkArgs[2]
            completion == SdkArgs[3]
            total == SdkArgs[4]
            http == SdkArgs[5]
            valid == /\ model.k = "name" /\ model.v # <<>>
                     /\ GoodCount(prompt) /\ GoodCount(completion) /\ GoodCount(total)
                     /\ total.v = prompt.v + completion.v
        IN  /\ ~valid => /\ sdk.result.outcome = "ValueError"
                         /\ sdk.calls = <<>>
            /\ valid => /\ sdk.result.outcome = "returned"
                        /\ Len(sdk.calls) = 1
                        /\ sdk.calls[1].to = "api"
                        /\ sdk.calls[1].url = sdk.config.api_url
                        /\ sdk.calls[1].sent.model = model.v
                        /\ sdk.calls[1].sent.total_tokens = total.v
                        /\ IF ~http.fails /\ http.code = 201 /\ http.log
                           THEN /\ sdk.result.returned.success
                                /\ sdk.result.returned.log = sdk.calls[1].sent
                           ELSE /\ ~sdk.result.returned.success
                                /\ sdk.result.returned.error = http

\* track_usage was called with prompt 10, completion 5 and total 16 for a
\* named model, raised ValueError and posted nothing
TrackUsageContractWitness ==
    /\ sdk.op.name = "track_usage"
    /\ SdkArgs[1] = Name(NameA)
    /\ SdkArgs[2] = IntVal(10)
    /\ SdkArgs[4] = IntVal(16)
    /\ sdk.result.outcome = "ValueError"
    /\ sdk.calls = <<>>

\* C24: after tracked_completion the provider was called once, then the
\* logging API once, and the provider's response was returned as it was
TrackedCompletionReturns ==
    sdk.op.name = "tracked_completion" =>
        /\ Len(sdk.calls) = 2
        /\ sdk.calls[1].to = "provider"
        /\ sdk.calls[2].to = "api"
        /\ sdk.result = Returned(SdkArgs[3])

\* the api_url the tests of the SDK expect as the default
StatedDefaultConfig ==
    [api_url |-> "http://localhost:5000/api/log",
     timeout |-> 3,
     debug |-> FALSE,
     disable_logging |-> FALSE]

\* C25: reset_config leaves the configuration at the stated defaults, and
\* set_config changes only the keys whose argument was given
ResetGivesDefaults ==
    [][/\ sdk'.op.name = "reset_config" => sdk'.config = StatedDefaultConfig
       /\ sdk'.op.name = "set_config" =>
              /\ sdk'.op.args[1] = None => sdk'.config.api_url = sdk.config.api_url
              /\ sdk'.op.args[2] = None => sdk'.config.timeout = sdk.config.timeout
              /\ sdk'.op.args[3] = None => sdk'.config.debug = sdk.config.debug
              /\ sdk'.op.args[4] = None =>
                     sdk'.config.disable_logging = sdk.config.disable_logging]_vars

-----------------------------------------------------------------------------
(* The pipeline with requests that differ in one part of their filter *)

\* one more event of model A, used by endpoint B
KeyStore == Append(CacheStore, Row(DT(2024, 1, 2, 8, 0), NameA, NameB, Provider1, 1000, 2000, 120))

KeyRequests ==
    {Req(Iso(CacheStart), Iso(CacheEnd), <<NameA>>, <<>>, <<>>, "day"),
     Req(Iso(CacheStart), Iso(CacheEnd), <<NameA>>, <<>>, <<>>, "month"),
     Req(Iso(CacheStart), Iso(CacheEnd), <<>>, <<NameA>>, <<>>, "day"),
     Req(Iso(CacheStart), Iso(CacheEnd), <<NameB>>, <<>>, <<>>, "day")}

InitKeys ==
    /\ now = 0
    /\ storeUp = TRUE
    /\ mem = 0
    /\ store = KeyStore
    /\ alternatives = CacheAlternatives
    /\ pricing = CachePricing
    /\ caches = EmptyCaches
    /\ resp = NoResp
    /\ served = 0
    /\ inflight = <<>>
    /\ sdk = SdkIdle

NextKeys ==
    \/ \E req \in KeyRequests, m \in MemLevels : GetMetricsSummary(req, m)
    \/ \E req \in KeyRequests, m \in MemLevels : GetMetricsTrend(req, m)
    \/ \E req \in KeyRequests, m \in MemLevels : GetRecommendations(req, m)
    \/ Tick

SpecKeys == InitKeys /\ [][NextKeys]_vars

\* the FilterSet of a request in the current state
FilterOf(req) == ParseFilters(req, store, storeUp, now)

\* C26: two requests of one kind that have the same cache key have the same
\* FilterSet, and a request is answered with the result of its own FilterSet
\* (the store does not change here, so a cached result is the computed one)
FingerprintsSeparate ==
    [][Handled =>
          /\ (resp.status = 200 /\ resp'.status = 200 /\ resp'.kind = resp.kind
                /\ resp'.key = resp.key) => FilterOf(resp'.req) = FilterOf(resp.req)
          /\ resp'.status = 200 =>
                resp'.body = Internal(resp'.kind, FilterOf(resp'.req), store,
                                      alternatives, pricing, storeUp)]_vars

-----------------------------------------------------------------------------
(* Properties of requests without dates *)

\* the request gives neither date: both are taken from the store
DatesInferred(req) == req.start_date.k = "none" /\ req.end_date.k = "none"

\* the stored events the list filters of f let through, whatever their time
ListMatching(rows, f) ==
    {i \in 1..Len(rows) :
        /\ f.models = <<>> \/ rows[i].model \in Range(f.models)
        /\ f.endpoints = <<>> \/ rows[i].endpoint_name \in Range(f.endpoints)
        /\ f.providers = <<>> \/ rows[i].api_provider \in Range(f.providers)}

\* C27: a summary or trend computed for a request without dates counts every
\* stored event its list filters let through, the latest one included
InferredRangeComplete ==
    [][(Handled /\ DatesInferred(resp'.req) /\ resp'.status = 200 /\ ~resp'.hit) =>
          LET n == Cardinality(ListMatching(store, FilterOf(resp'.req)))
          IN  /\ resp'.kind = "summary" => resp'.body.total_requests = n
              /\ (resp'.kind = "trend" /\ ~resp'.body.error) =>
                     SumRequests(resp'.body.metrics) = n]_vars

-----------------------------------------------------------------------------
(* Properties of the caches when the store fails *)

\* the body is the fallback the function returns when a store query raised
StoreErrorResult(r) ==
    LET f == ParseFilters(r.req, store, TRUE, r.at)
    IN  IF r.kind = "summary" THEN r.body.error
        ELSE /\ r.body.error
             /\ ~InitBuckets(f.start_date, f.end_date, f.time_granularity).raised

\* C28: a summary or trend request with explicit dates that is answered while
\* the store is up never gets the error fallback of a store failure
FailureNotMemoized ==
    [][(Handled /\ storeUp /\ resp'.status = 200 /\ ~NeedsProbe(resp'.req)
          /\ resp'.kind \in {"summary", "trend"}) => ~StoreErrorResult(resp')]_vars

-----------------------------------------------------------------------------
(* Requests served by threads that interleave with each other and with ingestion *)

MaxInflight == 2

ConcurrentRequests ==
    {Req(NoDate, NoDate, <<>>, <<>>, <<>>, "none"),
     Req(Iso(CacheStart), Iso(CacheEnd), <<>>, <<>>, <<>>, "day")}

\* the first half of a route: parse_filters() and make_cache_key(); the
\* thread then holds the key it is going to call the cached function with
BeginRequest(kind, req) ==
    LET f == ParseFilters(req, store, storeUp, now)
    IN  /\ served + Len(inflight) < MaxRequests
        /\ Len(inflight) < MaxInflight
        /\ inflight' = Append(inflight,
                              [ok |-> f.ok,
                               req |-> req,
                               kind |-> kind,
                               key |-> IF f.ok THEN MakeCacheKey(kind, f) ELSE <<>>,
                               queries |-> ParseProbes(req, storeUp)])
        /\ UNCHANGED <<now, storeUp, mem, store, alternatives, pricing, caches, resp,
                       served, sdk>>

\* the second half: get_ttl_hash() and the cached call, whose function calls
\* parse_filters() again on a miss; jsonify; cleanup_after_request
FinishRequest(i, m) ==
    LET t     == inflight[i]
        f     == ParseFilters(t.req, store, storeUp, now)
        ttl   == TtlHash(now)
        c     == caches[t.kind]
        j     == CacheIndex(c, t.key, ttl)
        value == IF j > 0 THEN c[j].value
                 ELSE Internal(t.kind, f, store, alternatives, pricing, storeUp)
        after == IF j > 0 THEN CacheTouch(c, j) ELSE CacheInsert(c, t.key, ttl, value)
    IN  /\ inflight' = SubSeq(inflight, 1, i - 1) \o SubSeq(inflight, i + 1, Len(inflight))
        /\ served' = served + 1
        /\ IF t.ok
           THEN /\ resp' = [req |-> t.req,
                            kind |-> t.kind,
                            key |-> t.key,
                            ttl |-> ttl,
                            at |-> now,
                            status |-> 200,
                            hit |-> j > 0,
                            queries |-> t.queries +
                                (IF j > 0 THEN 0
                                 ELSE InternalQueries(t.kind, t.req, f, store, storeUp)),
                            body |-> value]
                /\ caches' = CleanupCache([caches EXCEPT ![t.kind] = after], m)
           ELSE /\ resp' = [req |-> t.req,
                            kind |-> t.kind,
                            key |-> <<>>,
                            ttl |-> NotComputed,
                            at |-> now,
                            status |-> 500,
                            hit |-> FALSE,
                            queries |-> t.queries,
                            body |-> <<>>]
                /\ caches' = CleanupCache(caches, m)
        /\ mem' = m
        /\ UNCHANGED <<now, storeUp, store, alternatives, pricing, sdk>>

NextConcurrent ==
    \/ \E kind \in Kinds, req \in ConcurrentRequests : BeginRequest(kind, req)
    \/ \E i \in 1..Len(inflight), m \in MemLevels : FinishRequest(i, m)
    \/ Tick
    \/ \E row \in IngestRows : InsertTokenLog(row)

SpecConcurrent == Init /\ [][NextConcurrent]_vars

\* C29: the key a computed result is stored under is the key of the FilterSet
\* the result was computed for
KeyMatchesComputation ==
    [][(Handled /\ resp'.status = 200 /\ ~resp'.hit) =>
          /\ resp'.key = MakeCacheKey(resp'.kind, FilterOf(resp'.req))
          /\ resp'.body = Internal(resp'.kind, FilterOf(resp'.req), store,
                                   alternatives, pricing, storeUp)
          /\ mem' <= SoftWatermark =>
                 \E j \in 1..Len(caches'[resp'.kind]) :
                     /\ caches'[resp'.kind][j].value = resp'.body
                     /\ caches'[resp'.kind][j].ttl = resp'.ttl
                     /\ caches'[resp'.kind][j].key =
                            MakeCacheKey(resp'.kind, FilterOf(resp'.req))]_vars

====
